---- MODULE Spec2Model ----
(***************************************************************************)
(* Model of the Windows desktop access service                             *)
(* (lib/srv/desktop/windows_server.go): construction (heartbeat loops and  *)
(* the CRL publish), the Serve accept loop, Close, and one handling task   *)
(* per accepted connection with the per-IP connection limiter.             *)
(***************************************************************************)
EXTENDS Integers, Sequences, FiniteSets, TLC

\* ------------------------------------------------------------------ bounds

\* Number of inbound connections that arrive during one run.
MaxConns == 2

\* Per-IP capacity of the connection limiter (cfg.ConnLimiter).
MaxConnections == 1

Conns == 1..MaxConns

\* Remote IPs the proxy connects from.
IPs == {"10.0.0.1", "10.0.0.2"}

\* con.RemoteAddr().String() either splits into host and port, or does not.
BadAddr == "bad-addr"
RemoteAddrs == IPs \cup {BadAddr}

\* cfg.Heartbeat.StaticHosts
StaticHosts == <<"h1", "h2">>

\* One heartbeat loop for the service and one per static host.
ServiceLoop == "service"
Loops == {ServiceLoop} \cup {StaticHosts[i] : i \in 1..Len(StaticHosts)}

\* CRL bytes the authority hands out, and bytes published by an earlier run.
CRLs == {"crl"}
OldCRL == "old crl"
NoCRL == "none"

VARIABLES
    svc,          \* NewWindowsService: position of the constructor
    hostIdx,      \* startStaticHostHeartbeats: index of the next static host
    closeCtxDone, \* s.closeCtx is cancelled
    hb,           \* state of each heartbeat loop
    ldap,         \* the directory: parent container and CRL entry
    servePc,      \* Serve: position of the accept loop
    serveErr,     \* Serve: what it returned
    lisOpen,      \* the listener is open
    pc,           \* position of each connection / handling task
    remoteAddr,   \* handleConnection: remoteAddr of the connection
    defers,       \* handleConnection: deferred calls registered so far
    ctxParent,    \* context the connection's ctx was derived from
    issued,       \* credentials issued to the connection's session
    exit,         \* how the handling task ended
    sockClosed,   \* con.Close() was called
    acquires,     \* successful AcquireConnection calls of the task
    releases,     \* ReleaseConnection calls of the task
    count,        \* limiter: connections per token
    crashed,      \* the process died of an unrecovered panic
    now,          \* the clock (cfg.Clock)
    period,       \* AnnouncePeriod of each started heartbeat loop; 0 before it is drawn
    nextAnnounce, \* time of the next announce tick of each loop
    generated,    \* what the generator of each loop returned at its last tick
    directory,    \* the shared directory of record: unexpired descriptors
    uuidNext,     \* number of UUIDs generated so far
    onHeartbeat,  \* argument of the last OnHeartbeat call for each loop
    failed,       \* some attempt of the loop has failed since it was started
    restarts,     \* restarts of the service process
    lastStored,   \* the name the directory last held a desktop under, per address
    crlCalls,     \* updateCRL calls made by the operator-triggered refresh
    lastCall,     \* the last updateCRL call: its inputs, its requests, its result
    snapshot,     \* nameForStaticHost: what GetWindowsDesktops returns
    names,        \* nameForStaticHost: the calls made so far and what they returned
    dnCall,       \* crlDN: the call made, its inputs and what it returned
    credCalls,    \* generateCredentials: the calls made, their inputs and results
    keyNext,      \* number of keys rsa.GenerateKey has generated so far
    cfg,          \* fields of the WindowsServiceConfig that are set
    desktop,      \* handleConnection: the desktop GetWindowsDesktop returned
    credReq,      \* the generateCredentials call the connection's session made
    sniCall,      \* the server name of a connection and the name looked up
    pubs,         \* concurrent publishers: position, payload and result of each
    entries,      \* the LDAP directory the concurrent publishers write to
    inst,         \* service instances sharing a static host: position and pick
    clusters,     \* daemon.Service.clusters
    profiles,     \* the profiles in the daemon's working directory
    daemonCall,   \* the last call on the daemon service and its outcome
    lisCalls      \* the calls of newListener and their outcomes

vars == <<svc, hostIdx, closeCtxDone, hb, ldap, servePc, serveErr,
          lisOpen, pc, remoteAddr, defers, ctxParent, issued, exit,
          sockClosed, acquires, releases, count, crashed,
          now, period, nextAnnounce, generated, directory, uuidNext, onHeartbeat,
          failed, restarts, lastStored, crlCalls, lastCall, snapshot, names,
          dnCall, credCalls, keyNext, cfg, desktop, credReq, sniCall,
          pubs, entries, inst, clusters, profiles, daemonCall, lisCalls>>

newVars == <<svc, hostIdx, hb, ldap>>
serveVars == <<servePc, serveErr, lisOpen>>
connVars == <<pc, remoteAddr, defers, ctxParent, issued, exit, sockClosed,
              acquires, releases>>
loopVars == <<now, period, nextAnnounce, generated, directory, uuidNext, onHeartbeat,
              failed, restarts, lastStored>>
crlVars == <<crlCalls, lastCall>>
nameVars == <<snapshot, names>>
callVars == <<dnCall, credCalls, keyNext, cfg, sniCall>>
bridgeVars == <<desktop, credReq>>
pubVars == <<pubs, entries>>
raceVars == <<inst>>
daemonVars == <<clusters, profiles, daemonCall>>
lisVars == <<lisCalls>>
restVars == <<pubVars, raceVars, daemonVars, lisVars>>
extVars == <<loopVars, crlVars, nameVars, callVars, bridgeVars, restVars>>
gatewayVars == <<serveVars, connVars, count, crashed>>

\* ----------------------------------------------------------------- limiter

\* ConnLimiter.AcquireConnection(token): a slot is granted unless the token
\* already holds MaxConnections slots.
AcquireOK(cnt, token) == cnt[token] < MaxConnections

AcquireConnection(cnt, token) ==
    IF AcquireOK(cnt, token) THEN [cnt EXCEPT ![token] = @ + 1] ELSE cnt

\* ConnLimiter.ReleaseConnection(token): gives one slot back.
ReleaseConnection(cnt, token) ==
    IF cnt[token] > 0 THEN [cnt EXCEPT ![token] = @ - 1] ELSE cnt

\* --------------------------------------------------------------- updateCRL

\* The requests of updateCRL in the order it makes them; each one blocks on
\* the authority or on the directory, and other writers of the directory act
\* between them.
Protocol == <<"generateCRL", "clusterName", "connect", "addContainer",
              "addEntry", "modify">>

\* A request and its result.
Req(o, r) == [op |-> o, res |-> r]

\* updateCRL that takes 'already exists' on the entry for success.
UpdateCRLRequest_NoModify(step, dir, crlDER, fail) ==
    IF fail THEN [res |-> "error", dir |-> dir, next |-> "returnErr"]
    ELSE IF step = "generateCRL" THEN [res |-> "ok", dir |-> dir, next |-> "clusterName"]
    ELSE IF step = "clusterName" THEN [res |-> "ok", dir |-> dir, next |-> "connect"]
    ELSE IF step = "connect" THEN [res |-> "ok", dir |-> dir, next |-> "addContainer"]
    ELSE IF step = "addContainer"
    THEN IF dir.container
         THEN [res |-> "exists", dir |-> dir, next |-> "addEntry"]
         ELSE [res |-> "ok", dir |-> [dir EXCEPT !.container = TRUE],
               next |-> "addEntry"]
    ELSE IF step = "addEntry"
    THEN IF ~dir.container
         THEN [res |-> "error", dir |-> dir, next |-> "returnErr"]
         ELSE IF dir.crl # NoCRL
         THEN [res |-> "exists", dir |-> dir, next |-> "returnNil"]
         ELSE [res |-> "ok", dir |-> [dir EXCEPT !.crl = crlDER],
               next |-> "returnNil"]
    ELSE IF dir.crl = NoCRL
    THEN [res |-> "error", dir |-> dir, next |-> "returnErr"]
    ELSE [res |-> "ok", dir |-> [dir EXCEPT !.crl = crlDER], next |-> "returnNil"]

\* updateCRL that answers every error of the entry add with a modify.
UpdateCRLRequest_ModifyOnAnyError(step, dir, crlDER, fail) ==
    IF fail /\ step = "addEntry"
    THEN [res |-> "error", dir |-> dir, next |-> "modify"]
    ELSE IF fail THEN [res |-> "error", dir |-> dir, next |-> "returnErr"]
    ELSE IF step = "generateCRL" THEN [res |-> "ok", dir |-> dir, next |-> "clusterName"]
    ELSE IF step = "clusterName" THEN [res |-> "ok", dir |-> dir, next |-> "connect"]
    ELSE IF step = "connect" THEN [res |-> "ok", dir |-> dir, next |-> "addContainer"]
    ELSE IF step = "addContainer"
    THEN IF dir.container
         THEN [res |-> "exists", dir |-> dir, next |-> "addEntry"]
         ELSE [res |-> "ok", dir |-> [dir EXCEPT !.container = TRUE],
               next |-> "addEntry"]
    ELSE IF step = "addEntry"
    THEN IF ~dir.container
         THEN [res |-> "error", dir |-> dir, next |-> "modify"]
         ELSE IF dir.crl # NoCRL
         THEN [res |-> "exists", dir |-> dir, next |-> "modify"]
         ELSE [res |-> "ok", dir |-> [dir EXCEPT !.crl = crlDER],
               next |-> "returnNil"]
    ELSE IF dir.crl = NoCRL
    THEN [res |-> "error", dir |-> dir, next |-> "returnErr"]
    ELSE [res |-> "ok", dir |-> [dir EXCEPT !.crl = crlDER], next |-> "returnNil"]

\* One request of updateCRL(ctx), made on the directory as it is when the
\* request arrives: its result, the directory after it, and what updateCRL
\* does next. A request fails when fail is set, and the directory refuses an
\* add under a missing parent and a modify of a missing entry. An error
\* returns at once, except 'already exists': on the container it is ignored,
\* on the entry it leads to the modify.
UpdateCRLRequest(step, dir, crlDER, fail) ==
    IF fail THEN [res |-> "error", dir |-> dir, next |-> "returnErr"]
    ELSE IF step = "generateCRL" THEN [res |-> "ok", dir |-> dir, next |-> "clusterName"]
    ELSE IF step = "clusterName" THEN [res |-> "ok", dir |-> dir, next |-> "connect"]
    ELSE IF step = "connect" THEN [res |-> "ok", dir |-> dir, next |-> "addContainer"]
    ELSE IF step = "addContainer"
    THEN IF dir.container
         THEN [res |-> "exists", dir |-> dir, next |-> "addEntry"]
         ELSE [res |-> "ok", dir |-> [dir EXCEPT !.container = TRUE],
               next |-> "addEntry"]
    ELSE IF step = "addEntry"
    THEN IF ~dir.container
         THEN [res |-> "error", dir |-> dir, next |-> "returnErr"]
         ELSE IF dir.crl # NoCRL
         THEN [res |-> "exists", dir |-> dir, next |-> "modify"]
         ELSE [res |-> "ok", dir |-> [dir EXCEPT !.crl = crlDER],
               next |-> "returnNil"]
    ELSE IF dir.crl = NoCRL
    THEN [res |-> "error", dir |-> dir, next |-> "returnErr"]
    ELSE [res |-> "ok", dir |-> [dir EXCEPT !.crl = crlDER], next |-> "returnNil"]

\* The connection made at the connect step is open from then on, and the
\* deferred con.Close() closes it when updateCRL returns.
Connected(step) == step \in {"addContainer", "addEntry", "modify"}

\* The request of another windows_desktop_service of the same cluster and
\* domain that reaches the directory: the add of the container, or the add
\* or modify of the entry with the CRL that service fetched.
OtherRequest(dir, kind, crlDER) ==
    IF kind = "container" THEN [dir EXCEPT !.container = TRUE]
    ELSE IF dir.container THEN [dir EXCEPT !.crl = crlDER]
    ELSE dir

\* --------------------------------------------------------- heartbeat data

\* apidefaults.ServerAnnounceTTL (10 minutes), in units of 30 seconds.
TTL == 20

\* How far the clock runs.
MaxTime == 21

\* How often the service process is restarted.
MaxRestarts == 1

\* How many times the operator re-invokes the CRL publish.
MaxPublishes == 3

\* How many desktops GetWindowsDesktops returns at most.
MaxDesktops == 2

\* How many times nameForStaticHost is called on one snapshot.
MaxCalls == 3

\* cfg.Heartbeat.HostUUID and cfg.Heartbeat.PublicAddr
HostUUID == 0
PublicAddr == "desktop.example.com:3028"

\* cfg.LDAPConfig.Domain
Domain == "example.com"

\* No descriptor.
NoDesc == [kind |-> "none", name |-> 0, addr |-> "", domain |-> "", expiry |-> 0]

\* No updateCRL call yet.
NoCall == [crl |-> NoCRL, fault |-> "none", err |-> FALSE, ops |-> <<>>,
           before |-> [container |-> FALSE, crl |-> NoCRL], pc |-> "done"]

\* utils.RandomDuration(ServerAnnounceTTL/10): a duration in [0, TTL/10).
Jitters == 0..(TTL \div 10 - 1)

\* AnnouncePeriod as the whole TTL plus the jitter.
AnnouncePeriod_WholeTTL(jitter) == TTL + jitter

\* AnnouncePeriod of a heartbeat: ServerAnnounceTTL/2 plus the jitter drawn.
AnnouncePeriod(jitter) == TTL \div 2 + jitter

\* A heartbeat given a context that Close does not cancel.
HeartbeatContext_Background(l) == "background"

\* Context of a heartbeat: s.closeCtx.
HeartbeatContext(l) == "closeCtx"

\* The context of loop l is cancelled.
HeartbeatCancelled(l) == HeartbeatContext(l) = "closeCtx" /\ closeCtxDone

\* uuid.New(): the n-th identifier generated; no two are equal, and none
\* equals a name given by someone else.
NewUUID(n) == 100 + n

\* A service descriptor stamped once, when the service was constructed.
GetServiceHeartbeatInfo_Memoized(t) ==
    [kind |-> "service", name |-> HostUUID, addr |-> PublicAddr, domain |-> "",
     expiry |-> TTL]

\* getServiceHeartbeatInfo(): the service's descriptor at clock time t.
GetServiceHeartbeatInfo(t) ==
    [kind |-> "service", name |-> HostUUID, addr |-> PublicAddr, domain |-> "",
     expiry |-> t + TTL]

\* nameForStaticHost that never looks for an existing desktop.
NameForStaticHost_AlwaysNew(desktops, readErr, addr, n) ==
    IF readErr
    THEN [err |-> TRUE, name |-> 0, minted |-> FALSE]
    ELSE [err |-> FALSE, minted |-> TRUE, name |-> NewUUID(n)]

\* nameForStaticHost that returns the last desktop with the address.
NameForStaticHost_LastMatch(desktops, readErr, addr, n) ==
    IF readErr
    THEN [err |-> TRUE, name |-> 0, minted |-> FALSE]
    ELSE LET matches == {i \in 1..Len(desktops) : desktops[i].addr = addr} IN
         IF matches # {}
         THEN [err |-> FALSE, minted |-> FALSE,
               name |-> desktops[CHOOSE i \in matches : \A j \in matches : i >= j].name]
         ELSE [err |-> FALSE, minted |-> TRUE, name |-> NewUUID(n)]

\* nameForStaticHost(addr): the name of the first desktop with that address
\* among those GetWindowsDesktops returned, else a new UUID (the n-th).
NameForStaticHost(desktops, readErr, addr, n) ==
    IF readErr
    THEN [err |-> TRUE, name |-> 0, minted |-> FALSE]
    ELSE LET matches == {i \in 1..Len(desktops) : desktops[i].addr = addr} IN
         IF matches # {}
         THEN [err |-> FALSE, minted |-> FALSE,
               name |-> desktops[CHOOSE i \in matches : \A j \in matches : i <= j].name]
         ELSE [err |-> FALSE, minted |-> TRUE, name |-> NewUUID(n)]

\* getHostHeartbeatInfo(netAddr)(): the desktop's descriptor at clock time t.
GetHostHeartbeatInfo(addr, desktops, readErr, t, n) ==
    LET r == NameForStaticHost(desktops, readErr, addr, n) IN
    IF r.err
    THEN [err |-> TRUE, minted |-> FALSE, desc |-> NoDesc]
    ELSE [err |-> FALSE, minted |-> r.minted,
          desc |-> [kind |-> "desktop", name |-> r.name, addr |-> addr,
                    domain |-> Domain, expiry |-> t + TTL]]

\* Generators that all read the one loop variable host after the loop over
\* the static hosts has ended.
GeneratorAddr_SharedVariable(l) == StaticHosts[Len(StaticHosts)]

\* The address the generator of the loop of static host l works with:
\* getHostHeartbeatInfo(host) is called in the iteration of l and its
\* closure keeps the value it was passed.
GeneratorAddr(l) == l

\* Descriptors in the order of their names.
RECURSIVE SortByName(_)
SortByName(S) ==
    IF S = {} THEN <<>>
    ELSE LET m == CHOOSE e \in S : \A f \in S : e.name <= f.name
         IN <<m>> \o SortByName(S \ {m})

\* AccessPoint.GetWindowsDesktops(ctx): the desktops in the directory.
GetWindowsDesktops(d) == SortByName({e \in d : e.kind = "desktop"})

\* Announcer: the descriptor replaces the one of the same kind and name.
Upsert(d, desc) ==
    {e \in d : ~(e.kind = desc.kind /\ e.name = desc.name)} \cup {desc}

\* The directory drops a descriptor when its expiry is reached.
Unexpired(d, t) == {e \in d : e.expiry > t}

\* The desktops the directory holds for address a.
DesktopsAt(d, a) == {e \in d : e.kind = "desktop" /\ e.addr = a}

\* The name under which directory d holds a desktop for address a; when it
\* holds none, the name it last held one under (0: it never did).
StoredName(d, a, last) ==
    IF DesktopsAt(d, a) = {} THEN last
    ELSE (CHOOSE e \in DesktopsAt(d, a) :
             \A f \in DesktopsAt(d, a) : e.name <= f.name).name

LoopInit ==
    /\ now = 0
    /\ period = [l \in Loops |-> 0]
    /\ nextAnnounce = [l \in Loops |-> 0]
    /\ generated = [l \in Loops |-> NoDesc]
    /\ directory = {}
    /\ uuidNext = 0
    /\ onHeartbeat = [l \in Loops |-> "none"]
    /\ failed = [l \in Loops |-> FALSE]
    /\ restarts = 0
    /\ lastStored = [l \in Loops |-> 0]

CrlInit ==
    /\ crlCalls = 0
    /\ lastCall = NoCall

NameInit ==
    /\ snapshot = <<>>
    /\ names = <<>>

\* The fields of WindowsServiceConfig that CheckAndSetDefaults looks at, in
\* the order it looks at them.
FieldOrder ==
    <<"Log", "Clock", "TLS", "AccessPoint", "AuthClient", "ConnLimiter",
      "Heartbeat.HostUUID", "Heartbeat.PublicAddr", "Heartbeat.OnHeartbeat",
      "LDAPConfig.Addr", "LDAPConfig.Domain", "LDAPConfig.Username",
      "LDAPConfig.Password">>

Fields == {FieldOrder[i] : i \in 1..Len(FieldOrder)}

\* nil error.
NoErr == [kind |-> "nil", message |-> ""]

\* trace.BadParameter(message)
BadParameter(message) == [kind |-> "BadParameter", message |-> message]

\* LDAPConfig.check()
LDAPCheck(c) ==
    IF "LDAPConfig.Addr" \notin c
    THEN BadParameter("missing Addr in LDAPConfig")
    ELSE IF "LDAPConfig.Domain" \notin c
    THEN BadParameter("missing Domain in LDAPConfig")
    ELSE IF "LDAPConfig.Username" \notin c
    THEN BadParameter("missing Username in LDAPConfig")
    ELSE IF "LDAPConfig.Password" \notin c
    THEN BadParameter("missing Password in LDAPConfig")
    ELSE NoErr

\* HeartbeatConfig.CheckAndSetDefaults()
HeartbeatCheckAndSetDefaults(c) ==
    IF "Heartbeat.HostUUID" \notin c
    THEN BadParameter("HeartbeatConfig is missing HostUUID")
    ELSE IF "Heartbeat.PublicAddr" \notin c
    THEN BadParameter("HeartbeatConfig is missing PublicAddr")
    ELSE IF "Heartbeat.OnHeartbeat" \notin c
    THEN BadParameter("HeartbeatConfig is missing OnHeartbeat")
    ELSE NoErr

\* A CheckAndSetDefaults that leaves out the check of the LDAP fields.
CheckAndSetDefaults_SkipLDAP(c) ==
    LET d == c \cup {"Log", "Clock"} IN
    [cfg |-> d,
     err |-> IF "TLS" \notin d
             THEN BadParameter("WindowsServiceConfig is missing TLS")
             ELSE IF "AccessPoint" \notin d
             THEN BadParameter("WindowsServiceConfig is missing AccessPoint")
             ELSE IF "AuthClient" \notin d
             THEN BadParameter("WindowsServiceConfig is missing AuthClient")
             ELSE IF "ConnLimiter" \notin d
             THEN BadParameter("WindowsServiceConfig is missing ConnLimiter")
             ELSE HeartbeatCheckAndSetDefaults(d)]

\* WindowsServiceConfig.CheckAndSetDefaults(): Log and Clock get defaults,
\* then the first required field found missing is reported; cfg is the
\* configuration with the defaults in it.
CheckAndSetDefaults(c) ==
    LET d == c \cup {"Log", "Clock"} IN
    [cfg |-> d,
     err |-> IF "TLS" \notin d
             THEN BadParameter("WindowsServiceConfig is missing TLS")
             ELSE IF "AccessPoint" \notin d
             THEN BadParameter("WindowsServiceConfig is missing AccessPoint")
             ELSE IF "AuthClient" \notin d
             THEN BadParameter("WindowsServiceConfig is missing AuthClient")
             ELSE IF "ConnLimiter" \notin d
             THEN BadParameter("WindowsServiceConfig is missing ConnLimiter")
             ELSE IF HeartbeatCheckAndSetDefaults(d) # NoErr
             THEN HeartbeatCheckAndSetDefaults(d)
             ELSE LDAPCheck(d)]

\* Configurations the gateway is constructed with: a complete one and one
\* that lacks a required field.
SomeConfigs == {Fields, Fields \ {"LDAPConfig.Password"}}

\* No desktop: the lookup has not been made or has failed.
NoDesktop == [name |-> "", domain |-> ""]

\* The desktops of the directory the connections ask for: one of the domain
\* the service is configured with, one of another domain.
Desktops ==
    <<[name |-> "desktop-1", domain |-> "example.com"],
      [name |-> "desktop-2", domain |-> "corp.local"]>>

\* The desktop GetWindowsDesktop returns for the name taken from the
\* connection's server name.
GetWindowsDesktop(c) == Desktops[((c - 1) % Len(Desktops)) + 1]

\* No generateCredentials call.
NoCredReq == [username |-> "", domain |-> ""]

\* Principals the sessions ask credentials for.
Usernames == {"alice", "bob"}

\* The principal the session of the connection names when it asks for a
\* credential: the user of the connection's client.
SessionUser(c) == IF c % 2 = 1 THEN "alice" ELSE "bob"

BridgeInit ==
    /\ desktop = [c \in Conns |-> NoDesktop]
    /\ credReq = [c \in Conns |-> NoCredReq]

\* Publishers that run updateCRL at the same time.
MaxPublishers == 2

Publishers == 1..MaxPublishers

\* A publisher that has not called updateCRL.
IdlePublisher ==
    [pc |-> "idle", crlDER |-> NoCRL, err |-> FALSE, opened |-> 0, closed |-> 0,
     fault |-> "none"]

PubIdle ==
    /\ pubs = [p \in Publishers |-> IdlePublisher]
    /\ entries = {}

\* Service instances that are configured with the same static host.
Instances == {"s1", "s2"}

\* An instance whose heartbeat is between two ticks.
IdleInstance == [pc |-> "idle", desc |-> NoDesc, ticks |-> 0]

RaceIdle == inst = [s \in Instances |-> IdleInstance]

\* The goroutines that call the daemon service: the one that starts it and
\* loads the clusters, and two that serve gRPC requests.
Handlers == {"g1", "g2"}
Callers == Handlers \cup {"main"}

\* No cluster.
NoCluster == [Name |-> "", status |-> "", proxy |-> "", site |-> "", by |-> ""]

\* A caller that has made no call on the daemon service.
NoDaemonCall ==
    [op |-> "none", pc |-> "idle", name |-> "", err |-> "none",
     seen |-> <<>>, cluster |-> NoCluster, pending |-> <<>>, got |-> 0]

DaemonIdle ==
    /\ clusters = <<>>
    /\ profiles = {}
    /\ daemonCall = [g \in Callers |-> NoDaemonCall]

LisIdle == lisCalls = <<>>

RestInit ==
    /\ PubIdle
    /\ RaceIdle
    /\ DaemonIdle
    /\ LisIdle

\* No crlDN call has been made.
NoDnCall == [done |-> FALSE]

\* No server name has been looked at.
NoSniCall == [done |-> FALSE]

CallInit ==
    /\ dnCall = NoDnCall
    /\ credCalls = <<>>
    /\ keyNext = 0
    /\ sniCall = NoSniCall
    /\ BridgeInit
    /\ RestInit

\* ------------------------------------------------------------------- Init

Init ==
    /\ svc = "new"
    /\ hostIdx = 1
    /\ closeCtxDone = FALSE
    /\ hb = [l \in Loops |-> "none"]
    /\ ldap \in {[container |-> FALSE, crl |-> NoCRL],
                 [container |-> TRUE, crl |-> NoCRL],
                 [container |-> TRUE, crl |-> OldCRL]}
    /\ servePc = "idle"
    /\ serveErr = "none"
    /\ lisOpen = TRUE
    /\ pc = [c \in Conns |-> "none"]
    /\ remoteAddr = [c \in Conns |-> "unknown"]
    /\ defers = [c \in Conns |-> <<>>]
    /\ ctxParent = [c \in Conns |-> "none"]
    /\ issued = [c \in Conns |-> FALSE]
    /\ exit = [c \in Conns |-> "none"]
    /\ sockClosed = [c \in Conns |-> FALSE]
    /\ acquires = [c \in Conns |-> 0]
    /\ releases = [c \in Conns |-> 0]
    /\ count = [ip \in IPs |-> 0]
    /\ crashed = FALSE
    /\ LoopInit
    /\ CrlInit
    /\ CallInit
    /\ cfg \in SomeConfigs
    /\ NameInit

\* ------------------------------------------------------ NewWindowsService

\* cfg.CheckAndSetDefaults(), then the close context is created.
NewCheckConfig(valid) ==
    /\ ~crashed
    /\ svc = "new"
    /\ LET r == CheckAndSetDefaults(cfg) IN
        /\ valid <=> r.err = NoErr
        /\ cfg' = IF valid THEN r.cfg ELSE cfg
    /\ svc' = IF valid THEN "startServiceHeartbeat" ELSE "failed"
    /\ UNCHANGED <<hostIdx, closeCtxDone, hb, ldap, serveVars, connVars,
                   count, crashed>>
    /\ UNCHANGED <<loopVars, crlVars, nameVars, dnCall, credCalls, keyNext, sniCall,
                   bridgeVars, restVars>>

\* startServiceHeartbeat(): srv.NewHeartbeat, then go heartbeat.Run().
StartServiceHeartbeat(ok) ==
    /\ ~crashed
    /\ svc = "startServiceHeartbeat"
    /\ IF ok
       THEN /\ hb' = [hb EXCEPT ![ServiceLoop] = "running"]
            /\ svc' = IF Len(StaticHosts) = 0 THEN "updateCRL"
                      ELSE "startStaticHostHeartbeats"
       ELSE /\ svc' = "failed"
            /\ hb' = hb
    /\ UNCHANGED <<hostIdx, closeCtxDone, ldap, serveVars, connVars, count,
                   crashed>>
    /\ UNCHANGED extVars

\* startStaticHostHeartbeats(): one iteration of the loop over StaticHosts.
StartStaticHostHeartbeat(ok) ==
    /\ ~crashed
    /\ svc = "startStaticHostHeartbeats"
    /\ hostIdx <= Len(StaticHosts)
    /\ IF ok
       THEN /\ hb' = [hb EXCEPT ![StaticHosts[hostIdx]] = "running"]
            /\ hostIdx' = hostIdx + 1
            /\ svc' = IF hostIdx = Len(StaticHosts) THEN "updateCRL" ELSE svc
       ELSE /\ svc' = "failed"
            /\ UNCHANGED <<hb, hostIdx>>
    /\ UNCHANGED <<closeCtxDone, ldap, serveVars, connVars, count, crashed>>
    /\ UNCHANGED extVars

\* Where NewWindowsService is while s.updateCRL(ctx) runs: before each of
\* its requests.
CRLSteps == {"updateCRL", "clusterName", "connect", "addContainer", "addEntry",
             "modify"}

\* The request updateCRL makes next.
CRLStep(at) == IF at = "updateCRL" THEN "generateCRL" ELSE at

\* Construction as it would be if the error of updateCRL were dropped.
NewUpdateCRL_IgnoreError(crlDER, fail) ==
    /\ ~crashed
    /\ svc \in CRLSteps
    /\ LET step == CRLStep(svc)
           fetched == IF step = "generateCRL" THEN crlDER ELSE lastCall.crl
           r == UpdateCRLRequest(step, ldap, fetched, fail)
       IN /\ ldap' = r.dir
          /\ svc' = IF r.next \in {"returnNil", "returnErr"} THEN "constructed"
                    ELSE r.next
          /\ lastCall' = [NoCall EXCEPT !.crl = fetched]
    /\ UNCHANGED <<hostIdx, closeCtxDone, hb, serveVars, connVars, count,
                   crashed>>
    /\ UNCHANGED <<loopVars, crlCalls, nameVars, callVars, bridgeVars, restVars>>

\* s.updateCRL(ctx) as the last step of construction, one request at a time;
\* crlDER is what GenerateCertAuthorityCRL returns at the first. The service
\* is returned only when updateCRL reports no error.
NewUpdateCRL(crlDER, fail) ==
    /\ ~crashed
    /\ svc \in CRLSteps
    /\ LET step == CRLStep(svc)
           fetched == IF step = "generateCRL" THEN crlDER ELSE lastCall.crl
           r == UpdateCRLRequest(step, ldap, fetched, fail)
       IN /\ ldap' = r.dir
          /\ svc' = IF r.next = "returnNil" THEN "constructed"
                    ELSE IF r.next = "returnErr" THEN "failed"
                    ELSE r.next
          /\ lastCall' = [NoCall EXCEPT !.crl = fetched]
    /\ UNCHANGED <<hostIdx, closeCtxDone, hb, serveVars, connVars, count,
                   crashed>>
    /\ UNCHANGED <<loopVars, crlCalls, nameVars, callVars, bridgeVars, restVars>>

\* A request of another windows_desktop_service reaches the directory.
OtherPublisher(kind, crlDER) ==
    /\ ~crashed
    /\ ldap' = OtherRequest(ldap, kind, crlDER)
    /\ ldap' # ldap
    /\ UNCHANGED <<svc, hostIdx, closeCtxDone, hb, serveVars, connVars, count,
                   crashed>>
    /\ UNCHANGED extVars

\* heartbeat.Run() returns once the close context is cancelled.
HeartbeatExit(l) ==
    /\ ~crashed
    /\ hb[l] = "running"
    /\ HeartbeatCancelled(l)
    /\ hb' = [hb EXCEPT ![l] = "exited"]
    /\ UNCHANGED <<svc, hostIdx, closeCtxDone, ldap, serveVars, connVars,
                   count, crashed>>
    /\ UNCHANGED extVars

\* ------------------------------------------------------------------ Close

\* Close as it would be if it also tore down the established connections.
Close_ClosesConnections ==
    /\ ~crashed
    /\ svc = "constructed"
    /\ ~closeCtxDone
    /\ closeCtxDone' = TRUE
    /\ sockClosed' = [c \in Conns |->
                        sockClosed[c] \/ pc[c] \in {"auth", "lookup", "connect", "wait"}]
    /\ UNCHANGED <<newVars, serveVars, pc, remoteAddr, defers, ctxParent,
                   issued, exit, acquires, releases, count, crashed>>
    /\ UNCHANGED extVars

\* Close(): s.close() cancels closeCtx and returns.
Close ==
    /\ ~crashed
    /\ svc = "constructed"
    /\ ~closeCtxDone
    /\ closeCtxDone' = TRUE
    /\ UNCHANGED <<newVars, serveVars, connVars, count, crashed>>
    /\ UNCHANGED extVars

\* ------------------------------------------------------------------ Serve

\* Connections waiting in the listener's queue, oldest first.
Backlog == {c \in Conns : pc[c] = "backlog"}

\* Handling tasks that were spawned and have not returned.
InFlight == {c \in Conns : pc[c] \in {"spawned", "auth", "lookup", "connect", "wait"}}

\* A peer connects to the listener. The service sees a connection only when
\* Accept returns it, so arrivals are taken from the moment a service exists.
Arrive(c) ==
    /\ ~crashed
    /\ svc = "constructed"
    /\ lisOpen
    /\ pc[c] = "none"
    /\ \A d \in Conns : d < c => pc[d] # "none"
    /\ pc' = [pc EXCEPT ![c] = "backlog"]
    /\ UNCHANGED <<newVars, closeCtxDone, serveVars, remoteAddr, defers,
                   ctxParent, issued, exit, sockClosed, acquires, releases,
                   count, crashed>>
    /\ UNCHANGED extVars

\* Serve(plainLis) is called on a constructed service.
ServeStart ==
    /\ ~crashed
    /\ svc = "constructed"
    /\ servePc = "idle"
    /\ servePc' = "select"
    /\ UNCHANGED <<newVars, closeCtxDone, serveErr, lisOpen, connVars, count,
                   crashed>>
    /\ UNCHANGED extVars

\* The select at the top of the loop: return when closeCtx is done (the
\* deferred lis.Close() runs), otherwise go on to Accept.
ServeSelect ==
    /\ ~crashed
    /\ servePc = "select"
    /\ IF closeCtxDone
       THEN /\ servePc' = "returned"
            /\ serveErr' = "context canceled"
            /\ lisOpen' = FALSE
       ELSE /\ servePc' = "accept"
            /\ UNCHANGED <<serveErr, lisOpen>>
    /\ UNCHANGED <<newVars, closeCtxDone, connVars, count, crashed>>
    /\ UNCHANGED extVars

\* lis.Accept() returns the oldest waiting connection; go s.handleConnection(con).
ServeAccept ==
    /\ ~crashed
    /\ servePc = "accept"
    /\ lisOpen
    /\ Backlog # {}
    /\ LET c == CHOOSE x \in Backlog : \A y \in Backlog : x <= y IN
        pc' = [pc EXCEPT ![c] = "spawned"]
    /\ servePc' = "select"
    /\ UNCHANGED <<newVars, closeCtxDone, serveErr, lisOpen, remoteAddr,
                   defers, ctxParent, issued, exit, sockClosed, acquires,
                   releases, count, crashed>>
    /\ UNCHANGED extVars

\* lis.Accept() fails: Serve returns nil when the error is an OK network error
\* (the listener's owner closed it) or a connection problem, and the wrapped
\* error otherwise.
ServeAcceptError(okNetworkError) ==
    /\ ~crashed
    /\ servePc = "accept"
    /\ servePc' = "returned"
    /\ serveErr' = IF okNetworkError THEN "none" ELSE "accept error"
    /\ lisOpen' = FALSE
    /\ UNCHANGED <<newVars, closeCtxDone, connVars, count, crashed>>
    /\ UNCHANGED extVars

\* ------------------------------------------------------- handleConnection

\* The deferred calls run when handleConnection returns, last registered
\* first: ReleaseConnection(remoteAddr) if it was deferred, then con.Close().
RunDeferred(c, ds, addr) ==
    LET has(d) == \E i \in 1..Len(ds) : ds[i] = d IN
    /\ count' = IF has("release") THEN ReleaseConnection(count, addr) ELSE count
    /\ releases' = [releases EXCEPT ![c] = IF has("release") THEN @ + 1 ELSE @]
    /\ sockClosed' = [sockClosed EXCEPT ![c] = @ \/ has("close")]

\* handleConnection returns with the given outcome.
Return(c, result, ds, addr) ==
    /\ pc' = [pc EXCEPT ![c] = "done"]
    /\ exit' = [exit EXCEPT ![c] = result]
    /\ defers' = [defers EXCEPT ![c] = <<>>]
    /\ RunDeferred(c, ds, addr)

\* handleConnection as it would be without the deferred ReleaseConnection.
HandleStart_NoDeferRelease(c, addr) ==
    /\ ~crashed
    /\ pc[c] = "spawned"
    /\ remoteAddr' = [remoteAddr EXCEPT ![c] = addr]
    /\ IF addr = BadAddr
       THEN /\ Return(c, "parse error", <<"close">>, addr)
            /\ UNCHANGED acquires
       ELSE IF ~AcquireOK(count, addr)
       THEN /\ Return(c, "limit exceeded", <<"close">>, addr)
            /\ UNCHANGED acquires
       ELSE /\ count' = AcquireConnection(count, addr)
            /\ acquires' = [acquires EXCEPT ![c] = @ + 1]
            /\ defers' = [defers EXCEPT ![c] = <<"close">>]
            /\ pc' = [pc EXCEPT ![c] = "auth"]
            /\ UNCHANGED <<exit, releases, sockClosed>>
    /\ UNCHANGED <<newVars, closeCtxDone, serveVars, ctxParent, issued, crashed>>
    /\ UNCHANGED extVars

\* handleConnection as it would be if the error of AcquireConnection were
\* only logged.
HandleStart_IgnoreLimit(c, addr) ==
    /\ ~crashed
    /\ pc[c] = "spawned"
    /\ remoteAddr' = [remoteAddr EXCEPT ![c] = addr]
    /\ IF addr = BadAddr
       THEN /\ Return(c, "parse error", <<"close">>, addr)
            /\ UNCHANGED acquires
       ELSE /\ count' = AcquireConnection(count, addr)
            /\ acquires' = [acquires EXCEPT ![c] = IF AcquireOK(count, addr) THEN @ + 1 ELSE @]
            /\ defers' = [defers EXCEPT ![c] = <<"close", "release">>]
            /\ pc' = [pc EXCEPT ![c] = "auth"]
            /\ UNCHANGED <<exit, releases, sockClosed>>
    /\ UNCHANGED <<newVars, closeCtxDone, serveVars, ctxParent, issued, crashed>>
    /\ UNCHANGED extVars

\* handleConnection as it would be if con.Close() were deferred only after
\* the limiter slot was acquired.
HandleStart_LateDeferClose(c, addr) ==
    /\ ~crashed
    /\ pc[c] = "spawned"
    /\ remoteAddr' = [remoteAddr EXCEPT ![c] = addr]
    /\ IF addr = BadAddr
       THEN /\ Return(c, "parse error", <<>>, addr)
            /\ UNCHANGED acquires
       ELSE IF ~AcquireOK(count, addr)
       THEN /\ Return(c, "limit exceeded", <<>>, addr)
            /\ UNCHANGED acquires
       ELSE /\ count' = AcquireConnection(count, addr)
            /\ acquires' = [acquires EXCEPT ![c] = @ + 1]
            /\ defers' = [defers EXCEPT ![c] = <<"release", "close">>]
            /\ pc' = [pc EXCEPT ![c] = "auth"]
            /\ UNCHANGED <<exit, releases, sockClosed>>
    /\ UNCHANGED <<newVars, closeCtxDone, serveVars, ctxParent, issued, crashed>>
    /\ UNCHANGED extVars

\* defer con.Close(); parse the client IP; AcquireConnection; defer
\* ReleaseConnection.
HandleStart(c, addr) ==
    /\ ~crashed
    /\ pc[c] = "spawned"
    /\ remoteAddr' = [remoteAddr EXCEPT ![c] = addr]
    /\ IF addr = BadAddr
       THEN /\ Return(c, "parse error", <<"close">>, addr)
            /\ UNCHANGED acquires
       ELSE IF ~AcquireOK(count, addr)
       THEN /\ Return(c, "limit exceeded", <<"close">>, addr)
            /\ UNCHANGED acquires
       ELSE /\ count' = AcquireConnection(count, addr)
            /\ acquires' = [acquires EXCEPT ![c] = @ + 1]
            /\ defers' = [defers EXCEPT ![c] = <<"close", "release">>]
            /\ pc' = [pc EXCEPT ![c] = "auth"]
            /\ UNCHANGED <<exit, releases, sockClosed>>
    /\ UNCHANGED <<newVars, closeCtxDone, serveVars, ctxParent, issued, crashed>>
    /\ UNCHANGED extVars

\* What tls.NewListener hands to Accept's caller.
IsTLSConn(c) == TRUE

\* handleConnection as it would be if a failed authentication were only
\* logged, without the return.
Authenticate_ContinueOnFailure(c, ok) ==
    /\ ~crashed
    /\ pc[c] = "auth"
    /\ ctxParent' = [ctxParent EXCEPT ![c] = IF ok THEN "closeCtx" ELSE @]
    /\ pc' = [pc EXCEPT ![c] = "lookup"]
    /\ UNCHANGED <<exit, defers, count, releases, sockClosed>>
    /\ UNCHANGED <<newVars, closeCtxDone, serveVars, remoteAddr, issued,
                   acquires, crashed>>
    /\ UNCHANGED extVars

\* handleConnection as it would be if the connection's context were derived
\* from context.Background() instead of s.closeCtx.
Authenticate_BackgroundCtx(c, ok) ==
    /\ ~crashed
    /\ pc[c] = "auth"
    /\ IF ~ok
       THEN /\ Return(c, "auth failed", defers[c], remoteAddr[c])
            /\ UNCHANGED ctxParent
       ELSE /\ ctxParent' = [ctxParent EXCEPT ![c] = "background"]
            /\ pc' = [pc EXCEPT ![c] = "lookup"]
            /\ UNCHANGED <<exit, defers, count, releases, sockClosed>>
    /\ UNCHANGED <<newVars, closeCtxDone, serveVars, remoteAddr, issued,
                   acquires, crashed>>
    /\ UNCHANGED extVars

\* The *tls.Conn assertion, then middleware.WrapContextWithUser(s.closeCtx, tlsCon).
Authenticate(c, ok) ==
    /\ ~crashed
    /\ pc[c] = "auth"
    /\ IF ~IsTLSConn(c)
       THEN /\ Return(c, "not tls", defers[c], remoteAddr[c])
            /\ UNCHANGED ctxParent
       ELSE IF ~ok
       THEN /\ Return(c, "auth failed", defers[c], remoteAddr[c])
            /\ UNCHANGED ctxParent
       ELSE /\ ctxParent' = [ctxParent EXCEPT ![c] = "closeCtx"]
            /\ pc' = [pc EXCEPT ![c] = "lookup"]
            /\ UNCHANGED <<exit, defers, count, releases, sockClosed>>
    /\ UNCHANGED <<newVars, closeCtxDone, serveVars, remoteAddr, issued,
                   acquires, crashed>>
    /\ UNCHANGED extVars

\* desktopUUID from the server name, then AccessPoint.GetWindowsDesktop(ctx, desktopUUID).
Lookup(c, found) ==
    /\ ~crashed
    /\ pc[c] = "lookup"
    /\ IF found
       THEN /\ pc' = [pc EXCEPT ![c] = "connect"]
            /\ desktop' = [desktop EXCEPT ![c] = GetWindowsDesktop(c)]
            /\ UNCHANGED <<exit, defers, count, releases, sockClosed>>
       ELSE /\ Return(c, "lookup failed", defers[c], remoteAddr[c])
            /\ desktop' = desktop
    /\ UNCHANGED <<newVars, closeCtxDone, serveVars, remoteAddr, ctxParent,
                   issued, acquires, crashed>>
    /\ UNCHANGED <<loopVars, crlVars, nameVars, callVars, credReq, restVars>>

\* A connectRDP that returns nil once the session is open, without waiting
\* for it to end.
ConnectRDP_NoWait(c, ok) ==
    /\ ~crashed
    /\ pc[c] = "connect"
    /\ Return(c, IF ok THEN "ok" ELSE "rdp error", defers[c], remoteAddr[c])
    /\ UNCHANGED <<newVars, closeCtxDone, serveVars, remoteAddr, ctxParent,
                   issued, acquires, crashed>>
    /\ UNCHANGED extVars

\* connectRDP: rdpclient.New(ctx, ...) opens the outbound session.
ConnectRDP(c, ok) ==
    /\ ~crashed
    /\ pc[c] = "connect"
    /\ IF ok
       THEN /\ pc' = [pc EXCEPT ![c] = "wait"]
            /\ UNCHANGED <<exit, defers, count, releases, sockClosed>>
       ELSE Return(c, "rdp error", defers[c], remoteAddr[c])
    /\ UNCHANGED <<newVars, closeCtxDone, serveVars, remoteAddr, ctxParent,
                   issued, acquires, crashed>>
    /\ UNCHANGED extVars

\* How a call of generateCredentials can end: a credential, an error, or a
\* nil dereference of the decoded PEM block when the authority's answer
\* holds no PEM data.
CredOutcomes == {"ok", "error", "panic"}

\* A callback bound to the domain the service is configured with instead of
\* the desktop's.
GenerateUserCert_ConfiguredDomain(c, username, res, onHandlerTask) ==
    /\ ~crashed
    /\ pc[c] \in {"connect", "wait"}
    /\ ~issued[c]
    /\ credReq' = [credReq EXCEPT ![c] = [username |-> username,
                                          domain |-> Domain]]
    /\ IF res = "ok"
       THEN /\ issued' = [issued EXCEPT ![c] = TRUE]
            /\ UNCHANGED <<pc, exit, defers, count, releases, sockClosed, crashed>>
       ELSE IF res = "error"
       THEN /\ Return(c, "rdp error", defers[c], remoteAddr[c])
            /\ UNCHANGED <<issued, crashed>>
       ELSE /\ crashed' = TRUE
            /\ issued' = issued
            /\ IF onHandlerTask
               THEN Return(c, "panic", defers[c], remoteAddr[c])
               ELSE UNCHANGED <<pc, exit, defers, count, releases, sockClosed>>
    /\ UNCHANGED <<newVars, closeCtxDone, serveVars, remoteAddr, ctxParent, acquires>>
    /\ UNCHANGED <<loopVars, crlVars, nameVars, callVars, desktop, restVars>>

\* The session invokes its GenerateUserCert callback. An error ends the
\* session and connectRDP returns it. A panic is not recovered anywhere: the
\* process dies, after the handling task's deferred calls when the callback
\* ran on the handling task.
GenerateUserCert(c, username, res, onHandlerTask) ==
    /\ ~crashed
    /\ pc[c] \in {"connect", "wait"}
    /\ ~issued[c]
    /\ credReq' = [credReq EXCEPT ![c] = [username |-> username,
                                          domain |-> desktop[c].domain]]
    /\ IF res = "ok"
       THEN /\ issued' = [issued EXCEPT ![c] = TRUE]
            /\ UNCHANGED <<pc, exit, defers, count, releases, sockClosed, crashed>>
       ELSE IF res = "error"
       THEN /\ Return(c, "rdp error", defers[c], remoteAddr[c])
            /\ UNCHANGED <<issued, crashed>>
       ELSE /\ crashed' = TRUE
            /\ issued' = issued
            /\ IF onHandlerTask
               THEN Return(c, "panic", defers[c], remoteAddr[c])
               ELSE UNCHANGED <<pc, exit, defers, count, releases, sockClosed>>
    /\ UNCHANGED <<newVars, closeCtxDone, serveVars, remoteAddr, ctxParent, acquires>>
    /\ UNCHANGED <<loopVars, crlVars, nameVars, callVars, desktop, restVars>>

\* rdpc.Wait() returns: the session ended, cleanly or with an error.
SessionEnd(c, clean) ==
    /\ ~crashed
    /\ pc[c] = "wait"
    /\ Return(c, IF clean THEN "ok" ELSE "rdp error", defers[c], remoteAddr[c])
    /\ UNCHANGED <<newVars, closeCtxDone, serveVars, remoteAddr, ctxParent,
                   issued, acquires, crashed>>
    /\ UNCHANGED extVars

\* ------------------------------------------------------------------- Spec

Next ==
    \/ \E valid \in BOOLEAN : NewCheckConfig(valid)
    \/ \E ok \in BOOLEAN : StartServiceHeartbeat(ok)
    \/ \E ok \in BOOLEAN : StartStaticHostHeartbeat(ok)
    \/ \E crlDER \in CRLs, fail \in BOOLEAN : NewUpdateCRL(crlDER, fail)
    \/ \E kind \in {"container", "entry"}, crlDER \in CRLs :
          OtherPublisher(kind, crlDER)
    \/ \E l \in Loops : HeartbeatExit(l)
    \/ Close
    \/ \E c \in Conns : Arrive(c)
    \/ ServeStart
    \/ ServeSelect
    \/ ServeAccept
    \/ \E okNetworkError \in BOOLEAN : ServeAcceptError(okNetworkError)
    \/ \E c \in Conns, addr \in RemoteAddrs : HandleStart(c, addr)
    \/ \E c \in Conns, ok \in BOOLEAN : Authenticate(c, ok)
    \/ \E c \in Conns, found \in BOOLEAN : Lookup(c, found)
    \/ \E c \in Conns, ok \in BOOLEAN : ConnectRDP(c, ok)
    \/ \E c \in Conns, res \in CredOutcomes, onHandlerTask \in BOOLEAN :
          GenerateUserCert(c, SessionUser(c), res, onHandlerTask)
    \/ \E c \in Conns, clean \in BOOLEAN : SessionEnd(c, clean)

Spec == Init /\ [][Next]_vars

\* ------------------------------------------------------- heartbeat loops

\* heartbeat.Run() begins: the loop takes the announce period it was
\* configured with and is due at once.
HeartbeatRun(l, jitter) ==
    /\ hb[l] = "running"
    /\ period[l] = 0
    /\ period' = [period EXCEPT ![l] = AnnouncePeriod(jitter)]
    /\ nextAnnounce' = [nextAnnounce EXCEPT ![l] = now]
    /\ UNCHANGED <<now, generated, directory, uuidNext, onHeartbeat, failed,
                   restarts, lastStored>>
    /\ UNCHANGED <<newVars, closeCtxDone, gatewayVars, crlVars, nameVars, callVars, bridgeVars, restVars>>

\* A loop that ends when an attempt of a static host fails.
HeartbeatTick_StopOnFailure(l, readOK, ok) ==
    /\ hb[l] = "running"
    /\ period[l] # 0
    /\ ~HeartbeatCancelled(l)
    /\ now >= nextAnnounce[l]
    /\ l = ServiceLoop => readOK
    /\ LET g == IF l = ServiceLoop
                THEN [err |-> FALSE, minted |-> FALSE,
                      desc |-> GetServiceHeartbeatInfo(now)]
                ELSE GetHostHeartbeatInfo(GeneratorAddr(l), GetWindowsDesktops(directory),
                                          ~readOK, now, uuidNext)
           success == ~g.err /\ ok
       IN
        /\ generated' = [generated EXCEPT ![l] = g.desc]
        /\ uuidNext' = IF g.minted THEN uuidNext + 1 ELSE uuidNext
        /\ directory' = IF success THEN Upsert(directory, g.desc) ELSE directory
        /\ lastStored' = [m \in Loops |-> StoredName(directory', m, lastStored[m])]
        /\ onHeartbeat' = [onHeartbeat EXCEPT
                             ![l] = IF success THEN "ok" ELSE "error"]
        /\ failed' = [failed EXCEPT ![l] = failed[l] \/ ~success]
    /\ nextAnnounce' = [nextAnnounce EXCEPT ![l] = now + period[l]]
    /\ UNCHANGED <<now, period, restarts>>
    /\ hb' = IF ~(readOK /\ ok)
             THEN [hb EXCEPT ![l] = "exited"] ELSE hb
    /\ UNCHANGED <<svc, hostIdx, ldap, closeCtxDone, gatewayVars, crlVars, nameVars, callVars, bridgeVars, restVars>>

\* A failed attempt of a static host that puts off every loop's next tick.
HeartbeatTick_FailureDelaysAll(l, readOK, ok) ==
    /\ hb[l] = "running"
    /\ period[l] # 0
    /\ ~HeartbeatCancelled(l)
    /\ now >= nextAnnounce[l]
    /\ l = ServiceLoop => readOK
    /\ LET g == IF l = ServiceLoop
                THEN [err |-> FALSE, minted |-> FALSE,
                      desc |-> GetServiceHeartbeatInfo(now)]
                ELSE GetHostHeartbeatInfo(GeneratorAddr(l), GetWindowsDesktops(directory),
                                          ~readOK, now, uuidNext)
           success == ~g.err /\ ok
       IN
        /\ generated' = [generated EXCEPT ![l] = g.desc]
        /\ uuidNext' = IF g.minted THEN uuidNext + 1 ELSE uuidNext
        /\ directory' = IF success THEN Upsert(directory, g.desc) ELSE directory
        /\ lastStored' = [m \in Loops |-> StoredName(directory', m, lastStored[m])]
        /\ onHeartbeat' = [onHeartbeat EXCEPT
                             ![l] = IF success THEN "ok" ELSE "error"]
        /\ failed' = [failed EXCEPT ![l] = failed[l] \/ ~success]
    /\ nextAnnounce' = IF ~(readOK /\ ok)
                       THEN [m \in Loops |-> now + TTL]
                       ELSE [nextAnnounce EXCEPT ![l] = now + period[l]]
    /\ UNCHANGED <<now, period, restarts>>
    /\ UNCHANGED <<newVars, closeCtxDone, gatewayVars, crlVars, nameVars, callVars, bridgeVars, restVars>>

\* One tick of a loop: the generator is invoked, the descriptor is submitted
\* to the announcer, OnHeartbeat is called with the outcome, and the next
\* tick is one announce period later.
HeartbeatTick(l, readOK, ok) ==
    /\ hb[l] = "running"
    /\ period[l] # 0
    /\ ~HeartbeatCancelled(l)
    /\ now >= nextAnnounce[l]
    /\ l = ServiceLoop => readOK
    /\ LET g == IF l = ServiceLoop
                THEN [err |-> FALSE, minted |-> FALSE,
                      desc |-> GetServiceHeartbeatInfo(now)]
                ELSE GetHostHeartbeatInfo(GeneratorAddr(l), GetWindowsDesktops(directory),
                                          ~readOK, now, uuidNext)
           success == ~g.err /\ ok
       IN
        /\ generated' = [generated EXCEPT ![l] = g.desc]
        /\ uuidNext' = IF g.minted THEN uuidNext + 1 ELSE uuidNext
        /\ directory' = IF success THEN Upsert(directory, g.desc) ELSE directory
        /\ lastStored' = [m \in Loops |-> StoredName(directory', m, lastStored[m])]
        /\ onHeartbeat' = [onHeartbeat EXCEPT
                             ![l] = IF success THEN "ok" ELSE "error"]
        /\ failed' = [failed EXCEPT ![l] = failed[l] \/ ~success]
    /\ nextAnnounce' = [nextAnnounce EXCEPT ![l] = now + period[l]]
    /\ UNCHANGED <<now, period, restarts>>
    /\ UNCHANGED <<newVars, closeCtxDone, gatewayVars, crlVars, nameVars, callVars, bridgeVars, restVars>>

\* The clock advances by one unit, which is longer than the construction of
\* the service and than a loop takes to wake up: no construction is under
\* way, no loop is due and no loop's context is cancelled. The directory
\* drops the descriptors whose expiry is reached.
Tick ==
    /\ now < MaxTime
    /\ svc \in {"constructed", "failed"}
    /\ \A l \in Loops :
          hb[l] = "running"
             => ~HeartbeatCancelled(l) /\ period[l] # 0 /\ nextAnnounce[l] > now
    /\ now' = now + 1
    /\ directory' = Unexpired(directory, now + 1)
    /\ UNCHANGED <<period, nextAnnounce, generated, uuidNext, onHeartbeat,
                   failed, restarts, lastStored>>
    /\ UNCHANGED <<newVars, closeCtxDone, gatewayVars, crlVars, nameVars, callVars, bridgeVars, restVars>>

\* The service process ends and a new one is constructed from the same
\* configuration; the directory and the clock are not the process's.
Restart ==
    /\ restarts < MaxRestarts
    /\ now < MaxTime
    /\ svc \in {"constructed", "failed"}
    /\ restarts' = restarts + 1
    /\ svc' = "new"
    /\ hostIdx' = 1
    /\ closeCtxDone' = FALSE
    /\ hb' = [l \in Loops |-> "none"]
    /\ period' = [l \in Loops |-> 0]
    /\ nextAnnounce' = [l \in Loops |-> 0]
    /\ generated' = [l \in Loops |-> NoDesc]
    /\ onHeartbeat' = [l \in Loops |-> "none"]
    /\ failed' = [l \in Loops |-> FALSE]
    /\ now' = now + 1
    /\ directory' = Unexpired(directory, now + 1)
    /\ UNCHANGED <<ldap, uuidNext, lastStored>>
    /\ UNCHANGED <<gatewayVars, crlVars, nameVars, callVars, bridgeVars, restVars>>

\* The gateway before Serve is called.
GatewayIdle ==
    /\ servePc = "idle"
    /\ serveErr = "none"
    /\ lisOpen = TRUE
    /\ pc = [c \in Conns |-> "none"]
    /\ remoteAddr = [c \in Conns |-> "unknown"]
    /\ defers = [c \in Conns |-> <<>>]
    /\ ctxParent = [c \in Conns |-> "none"]
    /\ issued = [c \in Conns |-> FALSE]
    /\ exit = [c \in Conns |-> "none"]
    /\ sockClosed = [c \in Conns |-> FALSE]
    /\ acquires = [c \in Conns |-> 0]
    /\ releases = [c \in Conns |-> 0]
    /\ count = [ip \in IPs |-> 0]
    /\ crashed = FALSE

\* The directory when the service starts: empty, or holding the desktop of
\* the first static host under a name someone else gave it.
InitialDirectories ==
    {{}, {[kind |-> "desktop", name |-> 7, addr |-> StaticHosts[1],
           domain |-> Domain, expiry |-> TTL]}}

\* The heartbeat variables when a service is first constructed, the directory
\* being d.
LoopStart(d) ==
    /\ now = 0
    /\ period = [l \in Loops |-> 0]
    /\ nextAnnounce = [l \in Loops |-> 0]
    /\ generated = [l \in Loops |-> NoDesc]
    /\ directory = d
    /\ uuidNext = 0
    /\ onHeartbeat = [l \in Loops |-> "none"]
    /\ failed = [l \in Loops |-> FALSE]
    /\ restarts = 0
    /\ lastStored = [l \in Loops |-> StoredName(d, l, 0)]

\* The constructor has not run; the CRL directory holds an older CRL.
NewStart ==
    /\ svc = "new"
    /\ hostIdx = 1
    /\ closeCtxDone = FALSE
    /\ hb = [l \in Loops |-> "none"]
    /\ ldap = [container |-> TRUE, crl |-> OldCRL]

HbInit ==
    /\ NewStart
    /\ GatewayIdle
    /\ LoopStart({})
    /\ CrlInit
    /\ CallInit
    /\ cfg \in SomeConfigs
    /\ NameInit

\* Construction of the service.
Construct ==
    \/ \E valid \in BOOLEAN : NewCheckConfig(valid)
    \/ \E ok \in BOOLEAN : StartServiceHeartbeat(ok)
    \/ \E ok \in BOOLEAN : StartStaticHostHeartbeat(ok)
    \/ \E crlDER \in CRLs, fail \in BOOLEAN : NewUpdateCRL(crlDER, fail)

\* The steps of the heartbeat loops and of the clock.
Heartbeats ==
    \/ \E l \in Loops, jitter \in Jitters : HeartbeatRun(l, jitter)
    \/ \E l \in Loops, readOK \in BOOLEAN, ok \in BOOLEAN : HeartbeatTick(l, readOK, ok)
    \/ Tick

HbNext ==
    \/ Construct
    \/ Close
    \/ \E l \in Loops : HeartbeatExit(l)
    \/ Heartbeats

HbSpec == HbInit /\ [][HbNext]_vars

\* The loops are scheduled: a loop whose context is cancelled gets to exit.
HbFairSpec == HbSpec /\ \A l \in Loops : WF_vars(HeartbeatExit(l))

\* The service is restarted while the directory and the clock go on.
RestartInit ==
    /\ NewStart
    /\ GatewayIdle
    /\ \E d \in InitialDirectories : LoopStart(d)
    /\ CrlInit
    /\ CallInit
    /\ cfg = Fields
    /\ NameInit

\* The first static host's loop in full; the other loops with the shortest
\* period and announces that succeed.
RestartHeartbeats ==
    \/ \E l \in Loops, jitter \in Jitters :
          /\ l # StaticHosts[1] => jitter = 0
          /\ HeartbeatRun(l, jitter)
    \/ \E l \in Loops, readOK \in BOOLEAN, ok \in BOOLEAN :
          /\ l # StaticHosts[1] => readOK /\ ok
          /\ HeartbeatTick(l, readOK, ok)
    \/ Tick

\* A construction in which every step succeeds.
RestartConstruct ==
    \/ NewCheckConfig(TRUE)
    \/ StartServiceHeartbeat(TRUE)
    \/ StartStaticHostHeartbeat(TRUE)
    \/ \E crlDER \in CRLs : NewUpdateCRL(crlDER, FALSE)

RestartNext ==
    \/ RestartConstruct
    \/ RestartHeartbeats
    \/ Restart

RestartSpec == RestartInit /\ [][RestartNext]_vars

\* ------------------------------------------------------ nameForStaticHost

\* The desktops a snapshot may hold: a few names someone else gave, at the
\* addresses of the static hosts or elsewhere.
SnapshotDesktops ==
    [kind : {"desktop"}, name : 1..(MaxDesktops + 1),
     addr : {StaticHosts[i] : i \in 1..Len(StaticHosts)} \cup {"elsewhere"},
     domain : {Domain}, expiry : {TTL}]

\* What GetWindowsDesktops may return: desktops in any order, no name twice.
Snapshots ==
    {q \in UNION {[1..n -> SnapshotDesktops] : n \in 0..MaxDesktops} :
        \A i \in 1..Len(q), j \in 1..Len(q) : q[i].name = q[j].name => i = j}

\* nameForStaticHost(addr) is called; GetWindowsDesktops returns the snapshot
\* or fails.
NameCall(addr, readErr) ==
    /\ Len(names) < MaxCalls
    /\ LET r == NameForStaticHost(snapshot, readErr, addr, uuidNext) IN
        /\ names' = Append(names, [addr |-> addr, err |-> r.err,
                                   name |-> r.name, minted |-> r.minted])
        /\ uuidNext' = IF r.minted THEN uuidNext + 1 ELSE uuidNext
    /\ UNCHANGED <<snapshot, now, period, nextAnnounce, generated, directory,
                   onHeartbeat, failed, restarts, lastStored>>
    /\ UNCHANGED <<newVars, closeCtxDone, gatewayVars, crlVars, callVars, bridgeVars, restVars>>

NameSpecInit ==
    /\ NewStart
    /\ GatewayIdle
    /\ LoopStart({})
    /\ CrlInit
    /\ CallInit
    /\ cfg = Fields
    /\ snapshot \in Snapshots
    /\ names = <<>>

NameNext ==
    \E i \in 1..Len(StaticHosts), readErr \in BOOLEAN :
        NameCall(StaticHosts[i], readErr)

NameSpec == NameSpecInit /\ [][NameNext]_vars

\* ------------------------------------------------- updateCRL, repeatedly

\* The CRL bytes GenerateCertAuthorityCRL may return.
Payloads == CRLs \cup {OldCRL}

\* updateCRL is called, or the call that is running makes its next request,
\* on the directory as it is then; the requests and their results are
\* recorded with the call.
Publish(crlDER, fail) ==
    /\ lastCall.pc = "done" => crlCalls < MaxPublishes
    /\ LET call == IF lastCall.pc = "done"
                   THEN [crl |-> crlDER, fault |-> "none", err |-> FALSE,
                         ops |-> <<>>, before |-> ldap, pc |-> "generateCRL"]
                   ELSE lastCall
           r == UpdateCRLRequest(call.pc, ldap, call.crl, fail)
           made == Append(call.ops, Req(call.pc, r.res))
           returns == r.next \in {"returnNil", "returnErr"}
       IN /\ ldap' = r.dir
          /\ lastCall' =
                [call EXCEPT
                    !.fault = IF r.res = "error" /\ @ = "none" THEN call.pc ELSE @,
                    !.err = r.next = "returnErr",
                    !.ops = IF returns /\ Connected(call.pc)
                            THEN Append(made, Req("close", "ok")) ELSE made,
                    !.pc = IF returns THEN "done" ELSE r.next]
          /\ crlCalls' = IF lastCall.pc = "done" THEN crlCalls + 1 ELSE crlCalls
    /\ UNCHANGED <<svc, hostIdx, hb, closeCtxDone, gatewayVars, loopVars, nameVars, callVars, bridgeVars, restVars>>

\* A request of another windows_desktop_service reaches the directory while
\* publishes are made.
PublishElsewhere(kind, crlDER) ==
    /\ ldap' = OtherRequest(ldap, kind, crlDER)
    /\ ldap' # ldap
    /\ UNCHANGED <<svc, hostIdx, hb, closeCtxDone, gatewayVars, loopVars, crlVars,
                   nameVars, callVars, bridgeVars, restVars>>

CrlSpecInit ==
    /\ svc = "new"
    /\ hostIdx = 1
    /\ closeCtxDone = FALSE
    /\ hb = [l \in Loops |-> "none"]
    /\ ldap \in {[container |-> FALSE, crl |-> NoCRL],
                 [container |-> TRUE, crl |-> NoCRL],
                 [container |-> TRUE, crl |-> OldCRL]}
    /\ GatewayIdle
    /\ LoopStart({})
    /\ CrlInit
    /\ CallInit
    /\ cfg = Fields
    /\ NameInit

CrlNext ==
    \/ \E crlDER \in Payloads, fail \in BOOLEAN : Publish(crlDER, fail)
    \/ \E kind \in {"container", "entry"}, crlDER \in Payloads :
          PublishElsewhere(kind, crlDER)

CrlSpec == CrlSpecInit /\ [][CrlNext]_vars

\* ----------------------------------------------------------------- claims

\* Tasks that hold a limiter slot for ip: they acquired and have not returned.
Holders(ip) == {c \in Conns : pc[c] \in {"auth", "lookup", "connect", "wait"}
                              /\ remoteAddr[c] = ip}

\* The connection's context is cancelled.
CtxDone(c) == ctxParent[c] = "closeCtx" /\ closeCtxDone

\* A step in which Close() is called.
CloseStep == ~closeCtxDone /\ closeCtxDone'

\* C1: a handling task that acquired a limiter slot releases it exactly once
\* when it returns, whatever the exit path, and never before; so when no task
\* of an IP is in flight the IP's count is back at zero.
C1_ReleaseBalanced ==
    /\ \A c \in Conns :
        /\ acquires[c] <= 1
        /\ releases[c] = IF pc[c] = "done" THEN acquires[c] ELSE 0
    /\ \A ip \in IPs : Holders(ip) = {} => count[ip] = 0

C1_Witness ==
    \E c, d \in Conns :
        /\ c # d
        /\ remoteAddr[c] = remoteAddr[d]
        /\ pc[c] = "done" /\ exit[c] = "lookup failed"
        /\ pc[d] = "done" /\ exit[d] = "ok"
        /\ acquires[c] = 1 /\ releases[c] = 1
        /\ acquires[d] = 1 /\ releases[d] = 1
        /\ count[remoteAddr[c]] = 0

\* C2: for every IP the limiter count equals the number of tasks holding a
\* slot and never exceeds the capacity; a connection handled while the
\* capacity is used up is rejected in that step, before authentication,
\* without acquiring, without releasing and without changing any count.
C2_Inv ==
    /\ \A ip \in IPs :
        /\ count[ip] = Cardinality(Holders(ip))
        /\ count[ip] <= MaxConnections
    /\ \A c \in Conns :
        exit[c] = "limit exceeded" =>
            /\ acquires[c] = 0
            /\ releases[c] = 0
            /\ ctxParent[c] = "none"

C2_Step ==
    \A c \in Conns :
        (/\ pc[c] = "spawned"
         /\ pc'[c] # "spawned"
         /\ remoteAddr'[c] \in IPs
         /\ count[remoteAddr'[c]] >= MaxConnections)
        => /\ pc'[c] = "done"
           /\ exit'[c] = "limit exceeded"
           /\ count' = count

C2_LimitEnforced == [](C2_Inv) /\ [][C2_Step]_vars

C2_Witness ==
    \E c, d \in Conns, ip \in IPs :
        /\ c # d
        /\ count[ip] = MaxConnections
        /\ c \in Holders(ip)
        /\ remoteAddr[d] = ip
        /\ pc[d] = "done"
        /\ exit[d] = "limit exceeded"

\* The order of the steps of one connection.
StepRank(p) ==
    CASE p = "none" -> 0
      [] p = "backlog" -> 1
      [] p = "spawned" -> 2
      [] p = "auth" -> 3
      [] p = "lookup" -> 4
      [] p = "connect" -> 5
      [] p = "wait" -> 6
      [] p = "done" -> 7

\* The outcomes with which a task can return from each step.
ExitsAt(p) ==
    CASE p = "spawned" -> {"parse error", "limit exceeded"}
      [] p = "auth" -> {"not tls", "auth failed"}
      [] p = "lookup" -> {"lookup failed"}
      [] p = "connect" -> {"rdp error", "panic"}
      [] p = "wait" -> {"ok", "rdp error", "panic"}
      [] OTHER -> {}

\* C3: a connection moves only forward, one step at a time, to the next step
\* or straight to the end with the error of the step it was at; a finished
\* connection never moves again. Authentication runs only with a slot held,
\* the lookup only for an authenticated connection, the session only after
\* the lookup and with the desktop the lookup found; a connection that failed
\* before or in the lookup has no desktop.
C3_Step ==
    \A c \in Conns :
        /\ pc'[c] # pc[c] =>
            \/ /\ pc[c] # "done"
               /\ StepRank(pc'[c]) = StepRank(pc[c]) + 1
               /\ pc'[c] # "done" => exit'[c] = "none"
            \/ /\ pc'[c] = "done"
               /\ exit'[c] \in ExitsAt(pc[c])
        /\ pc[c] = "done" => (pc'[c] = "done" /\ exit'[c] = exit[c])
        /\ pc'[c] \in {"auth", "lookup", "connect", "wait"} =>
            (acquires'[c] = 1 /\ releases'[c] = 0 /\ remoteAddr'[c] \in IPs)
        /\ pc'[c] \in {"lookup", "connect", "wait"} => ctxParent'[c] = "closeCtx"
        /\ exit'[c] \in {"parse error", "limit exceeded", "not tls", "auth failed"}
            => ctxParent'[c] = "none"
        /\ pc'[c] \in {"connect", "wait"} => desktop'[c] # NoDesktop
        /\ exit'[c] \in {"parse error", "limit exceeded", "not tls", "auth failed",
                         "lookup failed"}
            => desktop'[c] = NoDesktop

C3_StepOrder == [][C3_Step]_vars

C3_Witness ==
    \E c, d \in Conns :
        /\ pc[c] = "wait"
        /\ pc[d] = "done"
        /\ exit[d] = "auth failed"

\* C4: every handling task that has returned has closed its socket.
C4_SocketClosed ==
    \A c \in Conns : pc[c] = "done" => sockClosed[c]

C4_Witness ==
    \E c, d \in Conns :
        /\ pc[c] = "done" /\ exit[c] = "limit exceeded" /\ sockClosed[c]
        /\ pc[d] = "done" /\ exit[d] = "rdp error" /\ sockClosed[d]

\* A step in which connection c fails.
Fails(c) == exit'[c] # exit[c] /\ exit'[c] # "ok"

\* What lies outside connection c is left as it was.
OutsideUnchanged(c) ==
    /\ crashed' = crashed
    /\ UNCHANGED <<newVars, closeCtxDone, serveVars>>
    /\ \A d \in Conns \ {c} :
        UNCHANGED <<pc[d], remoteAddr[d], defers[d], ctxParent[d], issued[d],
                    exit[d], sockClosed[d], acquires[d], releases[d]>>
    /\ \A ip \in IPs \ {remoteAddr'[c]} : count'[ip] = count[ip]

\* C5: a step in which one connection fails leaves the process, the accept
\* loop, the heartbeat loops, the other connections and the limiter counts of
\* the other IPs as they were.
C5_FailureContained ==
    [][\A c \in Conns : Fails(c) => OutsideUnchanged(c)]_vars

\* C6: once Close() has been called, no waiting connection is accepted and no
\* handling task is spawned.
C6_NoAcceptAfterClose ==
    [][closeCtxDone => \A c \in Conns : pc'[c] = "spawned" => pc[c] = "spawned"]_vars

\* The steps Serve can take without a new connection arriving and without a
\* failure of the listener.
ServeProgress == ServeSelect \/ ServeAccept

\* C7: after Close(), as long as Serve has not returned it can take a step on
\* its own, without a further connection arriving.
C7_ServeReturnsAfterClose ==
    (closeCtxDone /\ ~crashed /\ servePc \in {"select", "accept"} /\ Backlog = {})
        => ENABLED ServeProgress

\* C8: the context of every authenticated connection is derived from the close
\* context, so a call of Close() cancels it; Close can be called whatever the
\* handling tasks are doing and changes no handling task.
C8_Inv ==
    /\ \A c \in Conns :
        pc[c] \in {"lookup", "connect", "wait"} =>
            /\ ctxParent[c] = "closeCtx"
            /\ CtxDone(c) = closeCtxDone
    /\ (svc = "constructed" /\ ~closeCtxDone /\ ~crashed) => ENABLED Close

C8_Step ==
    CloseStep =>
        /\ \A c \in Conns : pc[c] \in {"lookup", "connect", "wait"} => CtxDone(c)'
        /\ UNCHANGED <<pc, exit>>

C8_CloseCancelsSharedContext == [](C8_Inv) /\ [][C8_Step]_vars

C8_Witness ==
    \E c, d \in Conns :
        /\ c # d
        /\ closeCtxDone
        /\ pc[c] = "lookup" /\ CtxDone(c)
        /\ pc[d] = "wait" /\ CtxDone(d)

\* C9 as stated: a connection that is being bridged when Close() is called
\* is not cancelled by it.
C9_BridgedNotCancelled ==
    [][CloseStep => \A c \in Conns : pc[c] \in {"connect", "wait"} => ~CtxDone(c)']_vars

\* C9 as amended: Close() cancels the context of a connection that is being
\* bridged, and does nothing else to it: the task is where it was, its socket
\* open and its slot held, and it returns only in a later step, when its
\* session ends.
C9_Step ==
    \A c \in Conns :
        /\ (CloseStep /\ pc[c] \in {"connect", "wait"}) =>
            /\ CtxDone(c)'
            /\ UNCHANGED <<pc[c], exit[c], sockClosed[c], defers[c], releases[c]>>
            /\ ~sockClosed'[c]
            /\ count'[remoteAddr[c]] = count[remoteAddr[c]]
        /\ (pc[c] = "wait" /\ pc'[c] # "wait") =>
            /\ ~CloseStep
            /\ pc'[c] = "done"
            /\ exit'[c] \in {"ok", "rdp error", "panic"}

C9_CloseCancelsButDoesNotEnd == [][C9_Step]_vars

C9_Witness ==
    \E c \in Conns :
        /\ closeCtxDone
        /\ pc[c] = "wait"
        /\ CtxDone(c)
        /\ ~sockClosed[c]
        /\ count[remoteAddr[c]] >= 1

\* C10: whenever a constructed service exists, the CRL entry and its parent
\* container are in the directory with the bytes the authority handed out.
C10_PublishedBeforeService ==
    svc = "constructed" => (ldap.container /\ ldap.crl \in CRLs)

C10_Witness ==
    /\ svc = "constructed"
    /\ ldap = [container |-> TRUE, crl |-> "crl"]
    /\ servePc = "accept"

\* C11: when construction has returned an error, no heartbeat loop that it
\* started is running.
C11_NoLoopAfterFailedConstruction ==
    svc = "failed" => \A l \in Loops : hb[l] # "running"

\* Loop l made an attempt in this step: its generator ran and the outcome was
\* handed to OnHeartbeat.
Attempted(l) ==
    /\ period[l] # 0
    /\ period'[l] = period[l]
    /\ \/ nextAnnounce'[l] # nextAnnounce[l]
       \/ onHeartbeat'[l] # onHeartbeat[l]
       \/ generated'[l] # generated[l]

\* The attempt loop l made in this step put no descriptor in the directory.
AttemptFailed(l) == Attempted(l) /\ generated'[l] \notin directory'

\* The directory holds the descriptor loop l last generated, unexpired.
Alive(l) == generated[l] \in directory /\ generated[l].expiry > now

\* The loops of the static hosts.
HostLoops == Loops \ {ServiceLoop}

\* C12: the descriptor a generator returns at a tick expires TTL after the
\* clock time of that tick, and an announce that replaces a stored descriptor
\* stores a strictly later expiry than the one it replaces.
C12_Step ==
    \A l \in Loops :
        Attempted(l) /\ generated'[l] # NoDesc =>
            /\ generated'[l].expiry = now + TTL
            /\ generated'[l] \in directory' =>
                 \A e \in directory :
                     e.kind = generated'[l].kind /\ e.name = generated'[l].name
                        => e.expiry < generated'[l].expiry

C12_ExpiryIsNowPlusTTL == [][C12_Step]_vars

\* C12 witness: the service and a static host have each announced a second
\* time, and the directory holds the later descriptors.
C12_Witness ==
    /\ now >= TTL \div 2
    /\ \A l \in {ServiceLoop, StaticHosts[1]} :
          /\ onHeartbeat[l] = "ok"
          /\ generated[l] \in directory
          /\ generated[l].expiry >= TTL + TTL \div 2

\* C13: every announce period lies in [TTL/2, TTL/2 + TTL/10) and so below
\* TTL, and a running loop none of whose attempts failed has its descriptor
\* unexpired in the directory.
C13_PeriodKeepsDescriptorAlive ==
    \A l \in Loops :
        /\ period[l] # 0 =>
             /\ TTL \div 2 <= period[l]
             /\ period[l] < TTL \div 2 + TTL \div 10
             /\ period[l] < TTL
        /\ hb[l] = "running" /\ onHeartbeat[l] # "none" /\ ~failed[l] => Alive(l)

\* C13 witness: the first descriptors would have expired by now, and every
\* loop, none of whose attempts failed, still has its descriptor stored.
C13_Witness ==
    /\ now >= TTL
    /\ \A l \in Loops : hb[l] = "running" /\ ~failed[l] /\ Alive(l)
    /\ \E l \in Loops : period[l] = TTL \div 2 + TTL \div 10 - 1

\* C14: a failed attempt is reported to OnHeartbeat as an error, leaves the
\* loop and the service as they were, and schedules the next attempt one
\* announce period later; no attempt is made before its scheduled time.
C14_Step ==
    \A l \in Loops :
        /\ Attempted(l) => now >= nextAnnounce[l]
        /\ AttemptFailed(l) =>
             /\ onHeartbeat'[l] = "error"
             /\ hb' = hb
             /\ svc' = svc
             /\ closeCtxDone' = closeCtxDone
             /\ nextAnnounce'[l] = now + period[l]

C14_FailureKeepsLoopRunning == [][C14_Step]_vars

\* C14 witness: a loop whose attempt failed made its next attempt one period
\* later, and that one succeeded.
C14_Witness ==
    \E l \in HostLoops :
        /\ failed[l]
        /\ hb[l] = "running"
        /\ onHeartbeat[l] = "ok"
        /\ Alive(l)
        /\ generated[l].expiry = TTL + period[l]

\* C15: a failed attempt of one loop changes nothing of the other loops nor
\* the directory, and a running loop none of whose own attempts failed has its
\* descriptor unexpired whatever attempts of the other loops failed.
C15_Step ==
    \A l \in Loops :
        AttemptFailed(l) =>
            /\ directory' = directory
            /\ \A m \in Loops \ {l} :
                  /\ hb'[m] = hb[m]
                  /\ period'[m] = period[m]
                  /\ nextAnnounce'[m] = nextAnnounce[m]
                  /\ generated'[m] = generated[m]
                  /\ onHeartbeat'[m] = onHeartbeat[m]
                  /\ failed'[m] = failed[m]

C15_Inv ==
    \A l \in HostLoops : \A m \in Loops \ {l} :
        failed[l] /\ hb[m] = "running" /\ onHeartbeat[m] # "none" /\ ~failed[m]
            => Alive(m)

C15_LoopsIndependent == [](C15_Inv) /\ [][C15_Step]_vars

\* C15 witness: the first static host's attempts have failed for a whole TTL
\* and the directory holds no descriptor of it, while the service and the
\* other static host have theirs unexpired.
C15_Witness ==
    /\ now >= TTL
    /\ failed[StaticHosts[1]]
    /\ onHeartbeat[StaticHosts[1]] = "error"
    /\ \A e \in directory : e.addr # StaticHosts[1]
    /\ \A m \in Loops \ {StaticHosts[1]} :
          hb[m] = "running" /\ ~failed[m] /\ Alive(m)

\* C16: a loop exits only when the close context is cancelled; once it is
\* cancelled no loop makes an attempt and the directory gains no descriptor;
\* and after Close every loop eventually is no longer running.
C16_Step ==
    /\ \A l \in Loops : hb[l] = "running" /\ hb'[l] = "exited" => closeCtxDone
    /\ closeCtxDone /\ closeCtxDone' =>
          /\ \A l \in Loops : ~Attempted(l)
          /\ directory' \subseteq directory

C16_LoopsExitOnClose ==
    /\ [][C16_Step]_vars
    /\ closeCtxDone ~> \A l \in Loops : hb[l] # "running"

\* C16 witness: Close was called when every loop had announced, and every
\* loop has exited.
C16_Witness ==
    /\ closeCtxDone
    /\ now > 0
    /\ \A l \in Loops : hb[l] = "exited" /\ onHeartbeat[l] = "ok"

\* C18: the directory never holds two desktops with different names for one
\* address; a descriptor generated for an address the directory has a
\* desktop for carries that desktop's name, on later ticks and after a
\* restart; one generated for an address the directory has no desktop for
\* (none was stored, or the one stored has expired) carries a new name.
C18_Inv ==
    \A e \in directory, f \in directory :
        e.kind = "desktop" /\ f.kind = "desktop" /\ e.addr = f.addr
            => e.name = f.name

C18_Step ==
    \A l \in HostLoops :
        Attempted(l) /\ generated'[l] # NoDesc =>
            /\ \A e \in DesktopsAt(directory, l) : generated'[l].name = e.name
            /\ DesktopsAt(directory, l) = {} => generated'[l].name = NewUUID(uuidNext)

C18_IdentityStable == [](C18_Inv) /\ [][C18_Step]_vars

\* C18 as stated: once the directory has held a desktop for an address, every
\* later descriptor generated for the address carries the name it was held
\* under, and the directory never holds two desktops with different names
\* for one address.
C18_LaterStep ==
    \A l \in HostLoops :
        (Attempted(l) /\ generated'[l] # NoDesc /\ lastStored[l] # 0)
            => generated'[l].name = lastStored[l]

C18_EveryLaterAnnounce == [](C18_Inv) /\ [][C18_LaterStep]_vars

\* C18 witness: after a restart the loop of the first static host announced
\* it under the name it had in the directory before the service first
\* started, past the time that first descriptor would have expired.
C18_Witness ==
    /\ restarts = 1
    /\ now >= TTL
    /\ onHeartbeat[StaticHosts[1]] = "ok"
    /\ Alive(StaticHosts[1])
    /\ \E e \in InitialDirectories : \E f \in e : generated[StaticHosts[1]].name = f.name
    /\ onHeartbeat[StaticHosts[2]] = "ok"
    /\ Alive(StaticHosts[2])
    /\ generated[StaticHosts[2]].name = NewUUID(0)

\* C17: on a fixed snapshot every call for an address some desktop has returns
\* the name of the first such desktop in snapshot order, and every call for an
\* address no desktop has returns a generated name that no other call
\* generated and no desktop of the snapshot bears.
C17_NameDeterministic ==
    \A i \in 1..Len(names) :
        ~names[i].err =>
            LET matches == {j \in 1..Len(snapshot) : snapshot[j].addr = names[i].addr} IN
            IF matches # {}
            THEN /\ ~names[i].minted
                 /\ \E j \in matches :
                       /\ \A k \in matches : j <= k
                       /\ names[i].name = snapshot[j].name
            ELSE /\ names[i].minted
                 /\ \A k \in 1..Len(names) :
                       k # i /\ names[k].minted => names[k].name # names[i].name
                 /\ \A j \in 1..Len(snapshot) : snapshot[j].name # names[i].name

\* C17 witness: the snapshot holds two desktops at the first static host's
\* address, the one with the greater name first; that address was named, and
\* the other static host's address was named twice with generated names.
C17_Witness ==
    /\ Len(snapshot) = 2
    /\ snapshot[1].addr = StaticHosts[1]
    /\ snapshot[2].addr = StaticHosts[1]
    /\ snapshot[1].name > snapshot[2].name
    /\ \E i \in 1..Len(names) : ~names[i].err /\ names[i].addr = StaticHosts[1]
    /\ \E i \in 1..Len(names), k \in 1..Len(names) :
          i # k /\ names[i].minted /\ names[k].minted

\* C19, in every state: a publish that has returned and none of whose
\* requests failed has returned no error.
C19_Inv ==
    crlCalls > 0 /\ lastCall.pc = "done" /\ lastCall.fault = "none"
        => ~lastCall.err

\* C19, in every step: whatever the directory held before and whatever other
\* publishers wrote meanwhile, the step in which a publish returns without
\* error leaves the parent container and the entry with the bytes that
\* publish fetched; and a step that is no request of a publish leaves the
\* directory as it is.
C19_Step ==
    /\ lastCall' # lastCall /\ lastCall'.pc = "done" /\ ~lastCall'.err
          => ldap'.container /\ ldap'.crl = lastCall'.crl
    /\ ldap' # ldap =>
          \/ lastCall' # lastCall
          \/ \E kind \in {"container", "entry"}, crlDER \in Payloads :
                ldap' = OtherRequest(ldap, kind, crlDER)

\* C19: updateCRL is an upsert: a publish that returns without error leaves
\* the entry with its own bytes, be the stored bytes equal or different, and
\* a publish without a failing request returns no error.
C19_IdempotentUpsert == [](C19_Inv) /\ [][C19_Step]_vars

\* C19 witness: a third publish found the entry holding other bytes than its
\* payload and replaced them, after a publish that had found it absent or equal.
C19_Witness ==
    /\ crlCalls = 3
    /\ lastCall.pc = "done"
    /\ ~lastCall.err
    /\ lastCall.before.crl \notin {NoCRL, lastCall.crl}
    /\ ldap.crl = lastCall.crl

\* The requests of the last updateCRL call, the closing of the connection
\* left out.
Requests == SelectSeq(lastCall.ops, LAMBDA q : q.op # "close")

\* The position of a request in the last call, 0 if it was not made.
Made(o) ==
    IF \E i \in 1..Len(Requests) : Requests[i].op = o
    THEN CHOOSE i \in 1..Len(Requests) : Requests[i].op = o
    ELSE 0

\* C20: the requests of a call, running or returned, are the protocol's in
\* order, up to the first one that failed, which is the last and makes the
\* call return an error; no connection is opened when the CRL fetch or the DN
\* computation failed; an 'already exists' on the container is followed by
\* the entry add; a modify is made only when the entry add reported 'already
\* exists', and then it is made; the connection is closed when the call
\* returns.
C20_ProtocolOrder ==
    crlCalls > 0 =>
        /\ Len(Requests) <= Len(Protocol)
        /\ \A i \in 1..Len(Requests) : Requests[i].op = Protocol[i]
        /\ \A i \in 1..Len(Requests) :
              Requests[i].res = "error" => i = Len(Requests) /\ lastCall.pc = "done"
        /\ lastCall.pc = "done" =>
              (lastCall.err <=> Requests[Len(Requests)].res = "error")
        /\ lastCall.fault \in {"generateCRL", "clusterName"} => Made("connect") = 0
        /\ Made("addContainer") # 0 /\ Requests[Made("addContainer")].res # "error"
              => Made("addEntry") # 0 \/ lastCall.pc = "addEntry"
        /\ Made("modify") # 0
              => Made("addEntry") # 0 /\ Requests[Made("addEntry")].res = "exists"
        /\ Made("addEntry") # 0 /\ Requests[Made("addEntry")].res = "exists"
              => Made("modify") # 0 \/ lastCall.pc = "modify"
        /\ lastCall.pc # "done" => lastCall.pc = Protocol[Len(Requests) + 1]
        /\ lastCall.pc = "done" =>
              (Made("connect") # 0 /\ Requests[Made("connect")].res = "ok"
                   <=> lastCall.ops[Len(lastCall.ops)].op = "close")
        /\ lastCall.pc # "done" =>
              \A i \in 1..Len(lastCall.ops) : lastCall.ops[i].op # "close"

\* C20 witness: the container was added by the call, another publisher added
\* the entry before the call's entry add, which reported 'already exists',
\* and the modify that followed failed.
C20_Witness ==
    /\ crlCalls > 0
    /\ lastCall.pc = "done"
    /\ lastCall.err
    /\ Made("addContainer") # 0 /\ Requests[Made("addContainer")].res = "ok"
    /\ Made("addEntry") # 0 /\ Requests[Made("addEntry")].res = "exists"
    /\ Made("modify") # 0 /\ Requests[Made("modify")].res = "error"

\* ------------------------------------------------------------------ crlDN

\* Strings that are taken apart character by character are sequences of
\* one-character strings; Str joins one into the string it spells.
RECURSIVE Str(_)
Str(chars) ==
    IF chars = <<>> THEN "" ELSE Head(chars) \o Str(Tail(chars))

\* strings.Split(s, sep) for a one-character sep: the pieces of s between the
\* occurrences of sep, one more piece than there are occurrences, empty
\* pieces included; splitting the empty string gives one empty piece.
RECURSIVE Split(_, _)
Split(chars, sep) ==
    IF chars = <<>> THEN << <<>> >>
    ELSE IF Head(chars) = sep THEN << <<>> >> \o Split(Tail(chars), sep)
    ELSE LET rest == Split(Tail(chars), sep) IN
         << <<Head(chars)>> \o Head(rest) >> \o Tail(rest)

\* The longest generated domain, in characters.
MaxDomainLen == 3

\* Characters of the generated domains.
DomainChars == {"a", "b", "."}

\* The domain of the example in the source's comment.
ExampleDomain == <<"e", "x", "a", "m", "p", "l", "e", ".", "c", "o", "m">>

\* Domains a crlDN call is made with.
Domains ==
    UNION {[1..n -> DomainChars] : n \in 0..MaxDomainLen} \cup {ExampleDomain}

\* Names cfg.AccessPoint.GetClusterName() returns.
ClusterNames == {"mycluster", "c2"}

\* The container all CRL entries live under, up to the domain components.
ParentDNPrefix ==
    "CN=Teleport,CN=CDP,CN=Public Key Services,CN=Services,CN=Configuration"

\* The loop of crlDN over domainParts: parentDN += ",DC=" + dc.
RECURSIVE AppendDCs(_, _)
AppendDCs(parentDN, domainParts) ==
    IF domainParts = <<>> THEN parentDN
    ELSE AppendDCs(parentDN \o ",DC=" \o Str(Head(domainParts)),
                   Tail(domainParts))

\* A crlDN that does not split the domain into its components.
CrlDN_NoSplit(clusterName, clusterErr, domain) ==
    IF clusterErr THEN [err |-> TRUE, dn |-> "", container |-> ""]
    ELSE LET parentDN == ParentDNPrefix \o ",DC=" \o Str(domain) IN
         [err |-> FALSE,
          dn |-> "CN=" \o clusterName \o "," \o parentDN,
          container |-> parentDN]

\* crlDN(ctx, domain): the DN of the CRL entry and of its parent container;
\* clusterName is what GetClusterName returns, clusterErr that it failed.
CrlDN(clusterName, clusterErr, domain) ==
    IF clusterErr THEN [err |-> TRUE, dn |-> "", container |-> ""]
    ELSE LET parentDN == AppendDCs(ParentDNPrefix, Split(domain, ".")) IN
         [err |-> FALSE,
          dn |-> "CN=" \o clusterName \o "," \o parentDN,
          container |-> parentDN]

\* The service as configured, nothing started: the state the calls of the
\* single-function specifications are made in.
ServiceIdle ==
    /\ svc = "new"
    /\ hostIdx = 1
    /\ closeCtxDone = FALSE
    /\ hb = [l \in Loops |-> "none"]
    /\ ldap = [container |-> FALSE, crl |-> NoCRL]
    /\ GatewayIdle
    /\ LoopInit
    /\ CrlInit
    /\ NameInit

\* crlDN is called with the inputs drawn.
CrlDNCall(clusterErr) ==
    /\ ~dnCall.done
    /\ LET r == CrlDN(dnCall.clusterName, clusterErr, dnCall.domain) IN
        dnCall' = [done |-> TRUE, clusterName |-> dnCall.clusterName,
                   domain |-> dnCall.domain, err |-> r.err, dn |-> r.dn,
                   container |-> r.container]
    /\ UNCHANGED <<newVars, closeCtxDone, gatewayVars, loopVars, crlVars, nameVars,
                   credCalls, keyNext, cfg, sniCall, bridgeVars, restVars>>

DnInit ==
    /\ ServiceIdle
    /\ credCalls = <<>>
    /\ keyNext = 0
    /\ cfg = Fields
    /\ sniCall = NoSniCall
    /\ BridgeInit
    /\ RestInit
    /\ dnCall \in {[done |-> FALSE, clusterName |-> n, domain |-> d] :
                     n \in ClusterNames, d \in Domains}

DnNext == \E clusterErr \in BOOLEAN : CrlDNCall(clusterErr)

DnSpec == DnInit /\ [][DnNext]_vars

\* The domain with every dot replaced by ",DC=".
RECURSIVE DotsToDCs(_)
DotsToDCs(chars) ==
    IF chars = <<>> THEN ""
    ELSE (IF Head(chars) = "." THEN ",DC=" ELSE Head(chars))
         \o DotsToDCs(Tail(chars))

\* Number of dots in the domain.
RECURSIVE Dots(_)
Dots(chars) ==
    IF chars = <<>> THEN 0
    ELSE (IF Head(chars) = "." THEN 1 ELSE 0) + Dots(Tail(chars))

\* C21: the DNs crlDN returns are determined by the cluster name and the
\* domain: the container DN is the fixed prefix followed by one ",DC=<part>"
\* for each dot-separated part of the domain, in the domain's order, and the
\* entry DN is "CN=<clusterName>," followed by the container DN; for
\* mycluster and example.com it is the DN of the example.
C21_DNFromClusterAndDomain ==
    dnCall.done /\ ~dnCall.err =>
        /\ dnCall.container =
              ParentDNPrefix \o ",DC=" \o DotsToDCs(dnCall.domain)
        /\ Len(Split(dnCall.domain, ".")) = Dots(dnCall.domain) + 1
        /\ Len(dnCall.container) =
              Len(ParentDNPrefix) + Len(dnCall.domain)
              + 4 + 3 * Dots(dnCall.domain)
        /\ dnCall.dn = "CN=" \o dnCall.clusterName \o "," \o dnCall.container
        /\ dnCall.clusterName = "mycluster" /\ dnCall.domain = ExampleDomain
              => dnCall.dn = "CN=mycluster,CN=Teleport,CN=CDP,CN=Public Key Services,CN=Services,CN=Configuration,DC=example,DC=com"

\* C21 witness: the DN of mycluster's entry for example.com was computed.
C21_Witness ==
    /\ dnCall.done /\ ~dnCall.err
    /\ dnCall.clusterName = "mycluster"
    /\ dnCall.domain = ExampleDomain

\* ---------------------------------------------------- generateCredentials

\* Object identifiers.
OIDExtKeyUsage == <<2, 5, 29, 37>>
OIDSubjectAltName == <<2, 5, 29, 17>>
OIDClientAuth == <<1, 3, 6, 1, 5, 5, 7, 3, 2>>
OIDSmartcardLogon == <<1, 3, 6, 1, 4, 1, 311, 20, 2, 2>>
OIDUPN == <<1, 3, 6, 1, 4, 1, 311, 20, 2, 3>>

\* DER is modelled as the tree of its tag-length-value elements: the class
\* and number of the tag, the constructed bit, and the content, which is the
\* sequence of the elements inside for a constructed element.
Element(class, tag, constructed, content) ==
    [class |-> class, tag |-> tag, constructed |-> constructed,
     content |-> content]

\* asn1.Marshal of an ObjectIdentifier: OBJECT IDENTIFIER, universal tag 6.
MarshalOID(oid) == Element("universal", 6, FALSE, oid)

\* asn1.Marshal of a string field marked `asn1:"utf8"`: UTF8String, tag 12.
MarshalUTF8(str) == Element("universal", 12, FALSE, str)

\* asn1.Marshal of a struct or of a slice: SEQUENCE, universal tag 16,
\* constructed, holding the fields or the items in order.
MarshalSequence(items) == Element("universal", 16, TRUE, items)

\* A field marked `asn1:"tag:n"`: the tag of the field's encoding is replaced
\* by the context-specific tag n (implicit tagging); the constructed bit and
\* the content stay.
FieldTag(n, element) == [element EXCEPT !.class = "context", !.tag = n]

\* extKeyUsageExtension: the two usages, as a raw extension.
ExtKeyUsageExtension ==
    [Id |-> OIDExtKeyUsage,
     Value |-> MarshalSequence(<<MarshalOID(OIDClientAuth),
                                 MarshalOID(OIDSmartcardLogon)>>)]

\* A subjectAltNameExtension whose otherName value is not tagged.
SubjectAltNameExtension_ValueUntagged(user, domain) ==
    [Id |-> OIDSubjectAltName,
     Value |-> MarshalSequence(<<
        FieldTag(0, MarshalSequence(<<
            MarshalOID(OIDUPN),
            MarshalSequence(<<MarshalUTF8(user \o "@" \o Str(domain))>>)
        >>))
     >>)]

\* subjectAltNameExtension(user, domain): the struct subjectAltName holding
\* one otherName (field tag 0), which holds the UPN OID and the struct upn
\* (field tag 0), which holds the string user@domain.
SubjectAltNameExtension(user, domain) ==
    [Id |-> OIDSubjectAltName,
     Value |-> MarshalSequence(<<
        FieldTag(0, MarshalSequence(<<
            MarshalOID(OIDUPN),
            FieldTag(0, MarshalSequence(<<
                MarshalUTF8(user \o "@" \o Str(domain))>>))
        >>))
     >>)]

\* A generator that hands out the key it generated first.
GenerateKey_Cached(n) == [rsa |-> 1]

\* rsa.GenerateKey(rand.Reader, 2048): the n-th key drawn from the random
\* source, different from all drawn before.
GenerateKey(n) == [rsa |-> n + 1]

\* x509.MarshalPKCS1PrivateKey(rsaKey)
MarshalPKCS1PrivateKey(rsaKey) == [pkcs1 |-> rsaKey]

\* x509.CreateCertificateRequest(rand.Reader, csr, rsaKey): the request
\* carries the template's subject and extra extensions and the public half
\* of the key, and is signed with the key.
CreateCertificateRequest(template, rsaKey) ==
    [Subject |-> template.Subject,
     Extensions |-> template.ExtraExtensions,
     PublicKey |-> [rsaPublic |-> rsaKey.rsa],
     SignedWith |-> [rsaPublic |-> rsaKey.rsa]]

\* pem.EncodeToMemory(&pem.Block{Type: type, Bytes: bytes})
PemEncode(type, bytes) == [pem |-> TRUE, Type |-> type, Bytes |-> bytes]

\* Bytes that hold no PEM block.
NotPEM == [pem |-> FALSE]

\* A nil *pem.Block.
NilBlock == [nil |-> TRUE]

\* pem.Decode(data): the first PEM block of data, nil when there is none.
PemDecode(data) ==
    IF data.pem THEN [nil |-> FALSE, Type |-> data.Type, Bytes |-> data.Bytes]
    ELSE NilBlock

\* TTL of the certificates requested: 5 * time.Minute, in seconds.
CertTTL == 300

\* The CRLEndpoint of the request for the entry DN.
CRLEndpoint(dn) ==
    "ldap:///" \o dn
    \o "?certificateRevocationList?base?objectClass=cRLDistributionPoint"

\* What the authority may answer to GenerateWindowsDesktopCert.
Answers == {"cert", "error", "notPEM"}

\* cfg.AuthClient.GenerateWindowsDesktopCert(ctx, req): an error, or a
\* response whose Cert is the PEM of a certificate for the request, or a
\* response whose Cert holds no PEM block.
GenerateWindowsDesktopCert(req, answer) ==
    CASE answer = "error" -> [err |-> TRUE]
      [] answer = "notPEM" -> [err |-> FALSE, Cert |-> NotPEM]
      [] OTHER ->
            [err |-> FALSE,
             Cert |-> PemEncode("CERTIFICATE",
                        [certifies |-> PemDecode(req.CSR).Bytes,
                         CRLEndpoint |-> req.CRLEndpoint,
                         TTL |-> req.TTL])]

\* What can go wrong in a call of generateCredentials.
CredFaults == {"none", "key", "san", "csr", "clusterName", "authority", "notPEM"}

\* No bytes: a nil certDER or keyDER.
NoBytes == [nil |-> TRUE]

\* generateCredentials returns an error; requests are the requests it made
\* to the authority.
CredError(requests) ==
    [err |-> TRUE, panic |-> FALSE, certDER |-> NoBytes, keyDER |-> NoBytes,
     requests |-> requests]

\* The request generateCredentials submits for username, the DN being dn and
\* the key rsaKey.
CertRequest(username, domain, dn, rsaKey) ==
    [CSR |-> PemEncode("CERTIFICATE REQUEST",
                CreateCertificateRequest(
                    [Subject |-> [CommonName |-> username],
                     ExtraExtensions |-> <<ExtKeyUsageExtension,
                                           SubjectAltNameExtension(username, domain)>>],
                    rsaKey)),
     CRLEndpoint |-> CRLEndpoint(dn),
     TTL |-> CertTTL]

\* A generateCredentials that computes the DN for the domain the service is
\* configured with.
GenerateCredentials_ConfiguredDomain(username, domain, clusterName, fault, n) ==
    IF fault \in {"key", "san", "csr"} THEN CredError(<<>>)
    ELSE LET rsaKey == GenerateKey(n)
             dn == CrlDN(clusterName, fault = "clusterName", ExampleDomain)
             req == CertRequest(username, domain, dn.dn, rsaKey)
         IN  IF dn.err THEN CredError(<<>>)
             ELSE [err |-> FALSE, panic |-> FALSE,
                   certDER |-> PemDecode(GenerateWindowsDesktopCert(req, "cert").Cert).Bytes,
                   keyDER |-> MarshalPKCS1PrivateKey(rsaKey),
                   requests |-> <<req>>]

\* generateCredentials(ctx, username, domain), n keys having been generated
\* before: the first step that fails returns its error; the authority is
\* asked once; a response without PEM block makes the call dereference the
\* nil block, which is a panic.
GenerateCredentials(username, domain, clusterName, fault, n) ==
    IF fault = "key" THEN CredError(<<>>)
    ELSE LET rsaKey == GenerateKey(n)
             keyDER == MarshalPKCS1PrivateKey(rsaKey)
         IN
    IF fault = "san" THEN CredError(<<>>)
    ELSE IF fault = "csr" THEN CredError(<<>>)
    ELSE LET dn == CrlDN(clusterName, fault = "clusterName", domain) IN
    IF dn.err THEN CredError(<<>>)
    ELSE LET req == CertRequest(username, domain, dn.dn, rsaKey)
             answer == CASE fault = "authority" -> "error"
                         [] fault = "notPEM" -> "notPEM"
                         [] OTHER -> "cert"
             genResp == GenerateWindowsDesktopCert(req, answer)
         IN
    IF genResp.err THEN CredError(<<req>>)
    ELSE LET certBlock == PemDecode(genResp.Cert) IN
    IF certBlock.nil
    THEN [err |-> FALSE, panic |-> TRUE, certDER |-> NoBytes,
          keyDER |-> NoBytes, requests |-> <<req>>]
    ELSE [err |-> FALSE, panic |-> FALSE, certDER |-> certBlock.Bytes,
          keyDER |-> keyDER, requests |-> <<req>>]

\* Calls of generateCredentials made in one run.
MaxCredCalls == 2

\* Domains of the targets: the one the service is configured with and another.
TargetDomains == {ExampleDomain, <<"a", ".", "b">>}

\* A session asks for a credential: generateCredentials runs once.
CredCall(username, domain, clusterName, fault) ==
    /\ ~crashed
    /\ Len(credCalls) < MaxCredCalls
    /\ LET r == GenerateCredentials(username, domain, clusterName, fault, keyNext) IN
        /\ credCalls' = Append(credCalls,
              [username |-> username, domain |-> domain,
               clusterName |-> clusterName, fault |-> fault,
               err |-> r.err, panic |-> r.panic, certDER |-> r.certDER,
               keyDER |-> r.keyDER, requests |-> r.requests])
        /\ crashed' = r.panic
    /\ keyNext' = IF fault = "key" THEN keyNext ELSE keyNext + 1
    /\ UNCHANGED <<newVars, closeCtxDone, serveVars, connVars, count, loopVars,
                   crlVars, nameVars, dnCall, cfg, sniCall, bridgeVars, restVars>>

CredInit ==
    /\ ServiceIdle
    /\ CallInit
    /\ cfg = Fields

CredNext ==
    \E username \in Usernames, domain \in TargetDomains,
       clusterName \in ClusterNames, fault \in CredFaults :
        CredCall(username, domain, clusterName, fault)

CredSpec == CredInit /\ [][CredNext]_vars

\* The requests the authority received, in order.
RECURSIVE AuthorityRequests(_)
AuthorityRequests(calls) ==
    IF calls = <<>> THEN <<>>
    ELSE AuthorityRequests(SubSeq(calls, 1, Len(calls) - 1))
         \o calls[Len(calls)].requests

\* C22: every request a generateCredentials call submitted asks for a TTL of
\* five minutes and names as CRL endpoint the LDAP URI of the entry DN of the
\* domain the call was made with, whatever domain the service is configured
\* with.
C22_RequestTTLAndCRLEndpoint ==
    \A i \in 1..Len(credCalls) :
        \A j \in 1..Len(credCalls[i].requests) :
            LET call == credCalls[i]
                req == call.requests[j]
            IN  /\ req.TTL = 5 * 60
                /\ req.CRLEndpoint =
                      "ldap:///CN=" \o call.clusterName \o "," \o ParentDNPrefix
                      \o ",DC=" \o DotsToDCs(call.domain)
                      \o "?certificateRevocationList?base?objectClass=cRLDistributionPoint"

\* C22 witness: a call for a target of another domain than the configured
\* one submitted its request.
C22_Witness ==
    \E i \in 1..Len(credCalls) :
        /\ credCalls[i].domain # ExampleDomain
        /\ Str(ExampleDomain) = Domain
        /\ Len(credCalls[i].requests) = 1
        /\ ~credCalls[i].err /\ ~credCalls[i].panic

\* The element is a primitive OBJECT IDENTIFIER.
IsOID(e) == e.class = "universal" /\ e.tag = 6 /\ ~e.constructed

\* The element is a SEQUENCE.
IsSequence(e) == e.class = "universal" /\ e.tag = 16 /\ e.constructed

\* ExtKeyUsageSyntax ::= SEQUENCE OF KeyPurposeId: the identifiers listed,
\* in order; not ok when the element is not of that form.
DecodeExtKeyUsage(e) ==
    IF IsSequence(e) /\ \A i \in 1..Len(e.content) : IsOID(e.content[i])
    THEN [ok |-> TRUE,
          items |-> [i \in 1..Len(e.content) |-> e.content[i].content]]
    ELSE [ok |-> FALSE, items |-> <<>>]

\* GeneralName [0] otherName: an implicitly tagged SEQUENCE of a type-id and
\* an explicitly tagged [0] value; the form of each name of the list.
IsOtherName(e) ==
    /\ e.class = "context" /\ e.tag = 0 /\ e.constructed
    /\ Len(e.content) = 2
    /\ IsOID(e.content[1])
    /\ e.content[2].class = "context" /\ e.content[2].tag = 0
    /\ e.content[2].constructed
    /\ Len(e.content[2].content) = 1

\* SubjectAltName ::= SEQUENCE OF GeneralName, all of them otherNames: the
\* type-id and the value of each; not ok when of another form.
DecodeOtherNames(e) ==
    IF IsSequence(e) /\ \A i \in 1..Len(e.content) : IsOtherName(e.content[i])
    THEN [ok |-> TRUE,
          items |-> [i \in 1..Len(e.content) |->
                        [typeID |-> e.content[i].content[1].content,
                         value |-> e.content[i].content[2].content[1]]]]
    ELSE [ok |-> FALSE, items |-> <<>>]

\* The certificate requests generateCredentials built and submitted.
SubmittedCSRs ==
    LET reqs == AuthorityRequests(credCalls) IN
    [i \in 1..Len(reqs) |-> PemDecode(reqs[i].CSR)]

\* The call a submitted request came from: calls submit at most one each.
SubmittingCalls == SelectSeq(credCalls, LAMBDA call : call.requests # <<>>)

\* C23: the certificate request of a call has the principal as the common
\* name of its subject and carries two extensions: the extended key usage,
\* which decodes to Client Authentication then Smartcard Logon and nothing
\* else, and the subject alternative name, which decodes to one otherName of
\* the UPN type whose value is the UTF8String principal@domain.
C23_RequestContents ==
    /\ Len(SubmittedCSRs) = Len(SubmittingCalls)
    /\ \A i \in 1..Len(SubmittedCSRs) :
        LET block == SubmittedCSRs[i]
            call == SubmittingCalls[i]
            exts == block.Bytes.Extensions
            eku == SelectSeq(exts, LAMBDA x : x.Id = <<2, 5, 29, 37>>)
            san == SelectSeq(exts, LAMBDA x : x.Id = <<2, 5, 29, 17>>)
        IN  /\ ~block.nil /\ block.Type = "CERTIFICATE REQUEST"
            /\ block.Bytes.Subject = [CommonName |-> call.username]
            /\ Len(exts) = 2 /\ Len(eku) = 1 /\ Len(san) = 1
            /\ DecodeExtKeyUsage(eku[1].Value) =
                  [ok |-> TRUE,
                   items |-> << <<1, 3, 6, 1, 5, 5, 7, 3, 2>>,
                                <<1, 3, 6, 1, 4, 1, 311, 20, 2, 2>> >>]
            /\ LET otherNames == DecodeOtherNames(san[1].Value) IN
                /\ otherNames.ok
                /\ Len(otherNames.items) = 1
                /\ otherNames.items[1].typeID = <<1, 3, 6, 1, 4, 1, 311, 20, 2, 3>>
                /\ otherNames.items[1].value.class = "universal"
                /\ otherNames.items[1].value.tag = 12
                /\ ~otherNames.items[1].value.constructed
                /\ otherNames.items[1].value.content =
                      call.username \o "@" \o Str(call.domain)

\* C23 witness: requests for two different principals of two different
\* domains were built and submitted.
C23_Witness ==
    /\ Len(SubmittedCSRs) = 2
    /\ credCalls[1].username # credCalls[2].username
    /\ credCalls[1].domain # credCalls[2].domain

\* C24: a call asks the authority at most once; when key generation, SAN
\* encoding, request creation or the cluster-name lookup fails the call
\* returns an error and the authority was not asked; when the authority
\* answers with an error the call returns an error; and whatever fails, the
\* call returns an error and no certificate, and the process lives on, so
\* that only the connection attempt that asked is lost.
C24_FailureReturnsError ==
    \A i \in 1..Len(credCalls) :
        LET call == credCalls[i] IN
        /\ Len(call.requests) <= 1
        /\ call.fault \in {"key", "san", "csr", "clusterName"}
              => call.err /\ call.requests = <<>>
        /\ call.fault = "authority" => call.err
        /\ call.fault # "none"
              => /\ call.err
                 /\ call.certDER = NoBytes /\ call.keyDER = NoBytes
                 /\ ~call.panic
                 /\ ~crashed

\* Calls that returned a credential.
Issued(i) == ~credCalls[i].err /\ ~credCalls[i].panic

\* The public key of the certificate request the call submitted.
RequestKey(i) == PemDecode(credCalls[i].requests[1].CSR).Bytes.PublicKey

\* C25, in every state: two calls never submit requests for the same key,
\* and two calls that returned credentials returned different private keys
\* and different certificates, even for the same principal and domain.
C25_Inv ==
    \A i \in 1..Len(credCalls) : \A j \in 1..Len(credCalls) :
        i # j =>
            /\ credCalls[i].requests # <<>> /\ credCalls[j].requests # <<>>
                  => /\ RequestKey(i) # RequestKey(j)
                     /\ credCalls[i].requests[1] # credCalls[j].requests[1]
            /\ Issued(i) /\ Issued(j)
                  => /\ credCalls[i].keyDER # credCalls[j].keyDER
                     /\ credCalls[i].certDER # credCalls[j].certDER

\* C25, in every step: a call leaves nothing behind in the service; what it
\* returned is all there is of the credential.
C25_Step ==
    credCalls' # credCalls =>
        /\ UNCHANGED <<svc, hostIdx, hb, ldap, closeCtxDone, serveVars, connVars,
                       count, loopVars, crlVars, nameVars, dnCall, cfg, sniCall,
                       bridgeVars, restVars>>
        /\ SubSeq(credCalls', 1, Len(credCalls)) = credCalls

\* C25: credentials are made anew by every call and kept nowhere.
C25_NeverCachedOrShared == [](C25_Inv) /\ [][C25_Step]_vars

\* C25 witness: two calls for the same principal of the same domain each
\* returned a credential.
C25_Witness ==
    /\ Len(credCalls) = 2
    /\ Issued(1) /\ Issued(2)
    /\ credCalls[1].username = credCalls[2].username
    /\ credCalls[1].domain = credCalls[2].domain
    /\ credCalls[1].clusterName = credCalls[2].clusterName

\* ------------------------------------------------------------- connectRDP

\* C26, in every step: connectRDP returns from two places only. While the
\* session is being opened it returns the error of the failed opening, never
\* nil; once the session is open it stays in Wait until the session ends and
\* returns what the session ended with, nil or its error. (The one other way
\* out is the death of the process.)
C26_Step ==
    \A c \in Conns :
        /\ pc[c] = "connect" /\ pc'[c] # "connect"
              => \/ pc'[c] = "wait" /\ exit'[c] = "none"
                 \/ pc'[c] = "done" /\ exit'[c] \in {"rdp error", "panic"}
        /\ pc[c] = "wait" /\ pc'[c] # "wait"
              => pc'[c] = "done" /\ exit'[c] \in {"ok", "rdp error", "panic"}
        /\ exit[c] # "ok" /\ exit'[c] = "ok" => pc[c] = "wait"

\* C26: connectRDP returns the opening error at once, and otherwise blocks
\* until the session ends and returns the session's result.
C26_BlocksUntilSessionEnds == [][C26_Step]_vars

\* C26 witness: one connection's session ended cleanly and connectRDP
\* returned nil; for another, which never got a credential, connectRDP
\* returned an error.
C26_Witness ==
    \E c \in Conns : \E d \in Conns \ {c} :
        /\ pc[c] = "done" /\ exit[c] = "ok"
        /\ pc[d] = "done" /\ exit[d] = "rdp error" /\ ~issued[d]

\* ------------------------------------------- NewWindowsService, any config

\* Fields missing from a configuration at most.
MaxMissing == 2

\* Configurations NewWindowsService is called with: any of the fields
\* CheckAndSetDefaults looks at may be missing.
Configs ==
    {Fields \ m : m \in {x \in SUBSET Fields : Cardinality(x) <= MaxMissing}}

ConfigInit ==
    /\ ServiceIdle
    /\ CallInit
    /\ cfg \in Configs

\* NewWindowsService(cfg), step by step.
ConfigNext == Construct

ConfigSpec == ConfigInit /\ [][ConfigNext]_vars

\* The fields NewWindowsService cannot do without.
RequiredFields ==
    {"TLS", "AccessPoint", "AuthClient", "ConnLimiter",
     "Heartbeat.HostUUID", "Heartbeat.PublicAddr", "Heartbeat.OnHeartbeat",
     "LDAPConfig.Addr", "LDAPConfig.Domain", "LDAPConfig.Username",
     "LDAPConfig.Password"}

\* C28: when the configuration lacks a required field, the check reports
\* BadParameter and NewWindowsService gets no further than the check: it has
\* either not run yet or has returned no service; no heartbeat loop was
\* started, the close context does not exist, and neither the directory nor
\* the authority was asked for anything.
C28_BadConfigStopsConstruction ==
    RequiredFields \ cfg # {} =>
        /\ CheckAndSetDefaults(cfg).err.kind = "BadParameter"
        /\ svc \in {"new", "failed"}
        /\ \A l \in Loops : hb[l] = "none"
        /\ hostIdx = 1
        /\ ldap = [container |-> FALSE, crl |-> NoCRL]
        /\ lastCall = NoCall /\ crlCalls = 0
        /\ directory = {}

\* C28 witness: NewWindowsService returned no service for a configuration
\* that lacks only the field checked last.
C28_Witness ==
    /\ svc = "failed"
    /\ Fields \ cfg = {"LDAPConfig.Password"}

\* ------------------------------------------------- credentials on demand

\* C29, in every state: a connection whose session asked for a credential
\* has its desktop resolved, and the call was made for the domain of that
\* desktop and for the principal the session named; a credential was issued
\* to a session only if it asked.
C29_Inv ==
    \A c \in Conns :
        /\ credReq[c] # NoCredReq =>
              /\ desktop[c] = GetWindowsDesktop(c)
              /\ credReq[c].domain = desktop[c].domain
              /\ credReq[c].username = SessionUser(c)
        /\ issued[c] => credReq[c] # NoCredReq

\* C29, in every step: generateCredentials is called for a connection only
\* while its session is being opened or is open; resolving the desktop and
\* opening the session call nothing; and a call concerns one connection.
C29_Step ==
    \A c \in Conns :
        /\ credReq'[c] # credReq[c] =>
              /\ pc[c] \in {"connect", "wait"}
              /\ desktop[c] # NoDesktop
              /\ \A d \in Conns \ {c} : credReq'[d] = credReq[d]
        /\ pc[c] = "lookup" => credReq'[c] = NoCredReq
        /\ pc[c] = "connect" /\ pc'[c] = "wait" => credReq'[c] = credReq[c]

\* C29: credentials are issued on the session's demand only, for the domain
\* of the connection's own desktop and the principal the session names.
C29_IssuedOnDemand == [](C29_Inv) /\ [][C29_Step]_vars

\* C29 witness: the session of one connection ended cleanly without ever
\* asking for a credential, and the session of another, whose desktop is of
\* another domain than the one the service is configured with, asked for one
\* and got it.
C29_Witness ==
    \E c \in Conns : \E d \in Conns \ {c} :
        /\ pc[c] = "done" /\ exit[c] = "ok" /\ credReq[c] = NoCredReq
        /\ issued[d] /\ credReq[d].domain = desktop[d].domain
        /\ desktop[d].domain # Domain

\* ------------------------------------------------ the name that is looked up

\* strings.HasSuffix(s, suffix)
HasSuffix(chars, suffix) ==
    /\ Len(suffix) <= Len(chars)
    /\ SubSeq(chars, Len(chars) - Len(suffix) + 1, Len(chars)) = suffix

\* A TrimSuffix that removes the suffix as often as it finds it.
RECURSIVE TrimSuffix_All(_, _)
TrimSuffix_All(chars, suffix) ==
    IF suffix # <<>> /\ HasSuffix(chars, suffix)
    THEN TrimSuffix_All(SubSeq(chars, 1, Len(chars) - Len(suffix)), suffix)
    ELSE chars

\* strings.TrimSuffix(s, suffix): s without the trailing suffix, s itself
\* when it does not end with it.
TrimSuffix(chars, suffix) ==
    IF HasSuffix(chars, suffix)
    THEN SubSeq(chars, 1, Len(chars) - Len(suffix))
    ELSE chars

\* The longest generated server name, in characters.
MaxNameLen == 4

\* Characters of the generated server names and suffixes.
NameChars == {"a", "."}

\* Server names the client may send.
ServerNames == UNION {[1..n -> NameChars] : n \in 0..MaxNameLen}

\* Values of the suffix SNISuffix.
Suffixes == UNION {[1..n -> NameChars] : n \in 0..2}

\* handleConnection derives the name of the desktop from the server name of
\* the connection.
DesktopUUID ==
    /\ ~sniCall.done
    /\ sniCall' = [done |-> TRUE, serverName |-> sniCall.serverName,
                   suffix |-> sniCall.suffix,
                   desktopUUID |-> TrimSuffix(sniCall.serverName, sniCall.suffix)]
    /\ UNCHANGED <<newVars, closeCtxDone, gatewayVars, loopVars, crlVars, nameVars,
                   dnCall, credCalls, keyNext, cfg, bridgeVars, restVars>>

SniInit ==
    /\ ServiceIdle
    /\ dnCall = NoDnCall
    /\ credCalls = <<>>
    /\ keyNext = 0
    /\ cfg = Fields
    /\ BridgeInit
    /\ RestInit
    /\ sniCall \in {[done |-> FALSE, serverName |-> n, suffix |-> x] :
                      n \in ServerNames, x \in Suffixes}

SniNext == DesktopUUID

SniSpec == SniInit /\ [][SniNext]_vars

\* C30: the name looked up, followed by the suffix, is the server name when
\* the server name ends with the suffix, so that the suffix was taken from
\* the end and once; it is the server name itself when the server name does
\* not end with the suffix.
C30_SuffixRemovedOnce ==
    sniCall.done =>
        IF \E n \in 0..Len(sniCall.serverName) :
              SubSeq(sniCall.serverName, n + 1, Len(sniCall.serverName))
                  = sniCall.suffix
        THEN sniCall.desktopUUID \o sniCall.suffix = sniCall.serverName
        ELSE sniCall.desktopUUID = sniCall.serverName

\* C30 witness: the server name ended with the suffix twice over, and the
\* name looked up still ends with it.
C30_Witness ==
    /\ sniCall.done
    /\ sniCall.suffix = <<".", "a">>
    /\ sniCall.serverName = <<".", "a", ".", "a">>
    /\ sniCall.desktopUUID = <<".", "a">>

\* ------------------------------------------------ one generator per host

\* Loops that were started.
Started == {l \in Loops : hb[l] # "none"}

\* C31, in every state: once the service is constructed a loop was started
\* for each static host and for the service, as many loops as there are
\* hosts plus one; what the loop of a host generates is a desktop with that
\* host's address and the configured domain, what the service's loop
\* generates is the service; no two loops generate for the same address, and
\* the desktops in the directory are those of the static hosts.
C31_Inv ==
    /\ svc = "constructed" =>
          /\ Started = Loops
          /\ Cardinality(Started) = Len(StaticHosts) + 1
    /\ \A l \in HostLoops :
          generated[l] # NoDesc =>
              /\ generated[l].kind = "desktop"
              /\ generated[l].addr = l
              /\ generated[l].domain = Domain
    /\ generated[ServiceLoop] # NoDesc =>
          /\ generated[ServiceLoop].kind = "service"
          /\ generated[ServiceLoop].addr = PublicAddr
    /\ \A l \in Loops : \A m \in Loops \ {l} :
          generated[l] # NoDesc /\ generated[m] # NoDesc
              => generated[l].addr # generated[m].addr
    /\ \A e \in directory :
          e.kind = "desktop" /\ e.name >= NewUUID(0)
              => e.addr \in HostLoops /\ e.domain = Domain

\* C31, in every step: a step of the construction starts at most one loop,
\* and a tick of one loop changes no other loop's descriptor.
C31_Step ==
    /\ Cardinality({l \in Loops : hb[l] = "none" /\ hb'[l] # "none"}) <= 1
    /\ \A l \in Loops : \A m \in Loops \ {l} :
          generated'[l] # generated[l] /\ restarts' = restarts
              => generated'[m] = generated[m]

\* C31: one loop per static host and one for the service, each with its own
\* generator bound to its own address.
C31_OneGeneratorPerHost == [](C31_Inv) /\ [][C31_Step]_vars

\* C31 witness: the service is constructed, both static hosts' loops have
\* announced, and the directory holds a desktop for each of the two.
C31_Witness ==
    /\ svc = "constructed"
    /\ \A l \in HostLoops :
          /\ generated[l] # NoDesc
          /\ \E e \in directory : e.kind = "desktop" /\ e.addr = l
                                  /\ e.name = generated[l].name

\* ------------------------------------------------- concurrent publishers

\* What GenerateCertAuthorityCRL returns to the publishers.
PublisherCRLs == CRLs \cup {"newer crl"}

\* The first call of an updateCRL run that fails, if one does.
PublisherFaults == {"none", "generateCRL", "clusterName", "dial", "startTLS",
                    "bind", "addContainer", "addEntry", "modify"}

\* The names of the CRL entry and of its container, the same for every
\* publisher of one cluster and one domain.
PublisherDN(fault) == CrlDN("mycluster", fault = "clusterName", ExampleDomain)

ContainerDN == PublisherDN("none").container
EntryDN == PublisherDN("none").dn

\* The entries the add requests of updateCRL carry.
ContainerEntry(parentDN) ==
    [dn |-> parentDN, objectClass |-> "container", crl |-> NoCRL]

CRLEntry(crlDN, crlDER) ==
    [dn |-> crlDN, objectClass |-> "cRLDistributionPoint", crl |-> crlDER]

\* The entry an entry is stored under: the CRL entry under its container, the
\* container under the configuration tree the domain controller comes with.
ParentPresent(dir, dn) ==
    dn = EntryDN => \E e \in dir : e.dn = ContainerDN

\* con.Add(areq): the directory refuses a name that is taken and a name whose
\* parent is missing, and stores the entry otherwise.
LdapAdd(dir, entry, fail) ==
    IF fail THEN [res |-> "error", dir |-> dir]
    ELSE IF \E e \in dir : e.dn = entry.dn THEN [res |-> "exists", dir |-> dir]
    ELSE IF ~ParentPresent(dir, entry.dn) THEN [res |-> "noSuchObject", dir |-> dir]
    ELSE [res |-> "ok", dir |-> dir \cup {entry}]

\* con.Modify(mreq) replacing certificateRevocationList: the entry of that
\* name gets the new value, and a name that is not there is an error.
LdapModify(dir, dn, crlDER, fail) ==
    IF fail THEN [res |-> "error", dir |-> dir]
    ELSE IF ~\E e \in dir : e.dn = dn THEN [res |-> "noSuchObject", dir |-> dir]
    ELSE [res |-> "ok",
          dir |-> {IF e.dn = dn THEN [e EXCEPT !.crl = crlDER] ELSE e : e \in dir}]

\* A variant of connect that closes the connection only when StartTLS fails.
Connect_LeakOnBindFailure(fault) ==
    IF fault = "dial" THEN [err |-> TRUE, opened |-> 0, closed |-> 0]
    ELSE IF fault = "startTLS" THEN [err |-> TRUE, opened |-> 1, closed |-> 1]
    ELSE IF fault = "bind" THEN [err |-> TRUE, opened |-> 1, closed |-> 0]
    ELSE [err |-> FALSE, opened |-> 1, closed |-> 0]

\* cfg.connect(): whether it fails, how many connections it opened and how
\* many of them it closed itself.
Connect(fault) ==
    IF fault = "dial" THEN [err |-> TRUE, opened |-> 0, closed |-> 0]
    ELSE IF fault = "startTLS" THEN [err |-> TRUE, opened |-> 1, closed |-> 1]
    ELSE IF fault = "bind" THEN [err |-> TRUE, opened |-> 1, closed |-> 1]
    ELSE [err |-> FALSE, opened |-> 1, closed |-> 0]

\* A variant of the container step that fails when the container exists.
AfterAddContainer_FailOnExists(res) ==
    IF res = "ok" THEN "addEntry" ELSE "fail"

\* What updateCRL does after the add of the container: an entry that exists
\* already is not an error.
AfterAddContainer(res) ==
    IF res \in {"ok", "exists"} THEN "addEntry" ELSE "fail"

\* A variant of the entry step that fails when the entry exists.
AfterAddEntry_FailOnExists(res) ==
    IF res = "ok" THEN "return" ELSE "fail"

\* What updateCRL does after the add of the CRL entry: it returns when the
\* entry was added, modifies the entry when it exists, and fails otherwise.
AfterAddEntry(res) ==
    IF res = "ok" THEN "return"
    ELSE IF res = "exists" THEN "modify"
    ELSE "fail"

\* The deferred con.Close() runs when updateCRL returns.
Returned(pub, failed_) ==
    [pub EXCEPT !.pc = "done", !.err = failed_, !.closed = @ + 1]

PubUnchanged ==
    UNCHANGED <<newVars, closeCtxDone, gatewayVars, loopVars, crlVars, nameVars,
                callVars, bridgeVars, raceVars, daemonVars, lisVars>>

\* updateCRL up to the connection: the CRL is generated and the names are
\* computed; a failure of either returns before any connection is made.
UpdateCRL_Generate(p, crlDER, fault) ==
    /\ pubs[p].pc = "idle"
    /\ pubs' = [pubs EXCEPT ![p] =
                   IF fault = "generateCRL" \/ PublisherDN(fault).err
                   THEN [pc |-> "done", crlDER |-> NoCRL, err |-> TRUE,
                         opened |-> 0, closed |-> 0, fault |-> fault]
                   ELSE [pc |-> "connect", crlDER |-> crlDER, err |-> FALSE,
                         opened |-> 0, closed |-> 0, fault |-> fault]]
    /\ UNCHANGED entries
    /\ PubUnchanged

\* s.cfg.LDAPConfig.connect() and the return when it fails.
UpdateCRL_Connect(p) ==
    /\ pubs[p].pc = "connect"
    /\ LET r == Connect(pubs[p].fault) IN
       pubs' = [pubs EXCEPT ![p] =
                   [@ EXCEPT !.pc = IF r.err THEN "done" ELSE "addContainer",
                             !.err = r.err,
                             !.opened = r.opened,
                             !.closed = r.closed]]
    /\ UNCHANGED entries
    /\ PubUnchanged

\* The add request for the parent container.
UpdateCRL_AddContainer(p) ==
    /\ pubs[p].pc = "addContainer"
    /\ LET r == LdapAdd(entries, ContainerEntry(PublisherDN(pubs[p].fault).container),
                        pubs[p].fault = "addContainer")
       IN /\ entries' = r.dir
          /\ pubs' = [pubs EXCEPT ![p] =
                         IF AfterAddContainer(r.res) = "fail"
                         THEN Returned(@, TRUE)
                         ELSE [@ EXCEPT !.pc = "addEntry"]]
    /\ PubUnchanged

\* The add request for the CRL entry.
UpdateCRL_AddEntry(p) ==
    /\ pubs[p].pc = "addEntry"
    /\ LET r == LdapAdd(entries,
                        CRLEntry(PublisherDN(pubs[p].fault).dn, pubs[p].crlDER),
                        pubs[p].fault = "addEntry")
           next == AfterAddEntry(r.res)
       IN /\ entries' = r.dir
          /\ pubs' = [pubs EXCEPT ![p] =
                         IF next = "fail" THEN Returned(@, TRUE)
                         ELSE IF next = "return" THEN Returned(@, FALSE)
                         ELSE [@ EXCEPT !.pc = "modify"]]
    /\ PubUnchanged

\* The modify request that replaces the CRL of the entry that exists.
UpdateCRL_Modify(p) ==
    /\ pubs[p].pc = "modify"
    /\ LET r == LdapModify(entries, PublisherDN(pubs[p].fault).dn, pubs[p].crlDER,
                           pubs[p].fault = "modify")
       IN /\ entries' = r.dir
          /\ pubs' = [pubs EXCEPT ![p] = Returned(@, r.res # "ok")]
    /\ PubUnchanged

\* No call of the other subjects is under way.
CallsIdle ==
    /\ dnCall = NoDnCall
    /\ credCalls = <<>>
    /\ keyNext = 0
    /\ sniCall = NoSniCall
    /\ cfg = Fields
    /\ BridgeInit

\* The directory the publishers start with: empty, with the container, or with
\* the container and an entry an earlier run published.
PubInit ==
    /\ ServiceIdle
    /\ CallsIdle
    /\ RaceIdle
    /\ DaemonIdle
    /\ LisIdle
    /\ pubs = [p \in Publishers |-> IdlePublisher]
    /\ entries \in {{},
                    {ContainerEntry(ContainerDN)},
                    {ContainerEntry(ContainerDN), CRLEntry(EntryDN, OldCRL)}}

PubNext ==
    \E p \in Publishers :
        \/ \E crlDER \in PublisherCRLs, fault \in PublisherFaults :
               UpdateCRL_Generate(p, crlDER, fault)
        \/ UpdateCRL_Connect(p)
        \/ UpdateCRL_AddContainer(p)
        \/ UpdateCRL_AddEntry(p)
        \/ UpdateCRL_Modify(p)

PubSpec == PubInit /\ [][PubNext]_vars

\* Publishers that have returned.
Done == {p \in Publishers : pubs[p].pc = "done"}

\* The entries of the directory at a name.
At(dn) == {e \in entries : e.dn = dn}

\* C32: when the publishers have all returned and none of their calls was
\* made to fail, none of them returned an error, and the directory holds
\* exactly one container and exactly one entry at the name of the CRL, which
\* is a CRL distribution point with the CRL of one of the publishers; at every
\* moment the directory has at most one entry per name.
C32_ConcurrentPublishers ==
    /\ \A e \in entries : At(e.dn) = {e}
    /\ (Done = Publishers /\ \A p \in Publishers : pubs[p].fault = "none") =>
          /\ \A p \in Publishers : ~pubs[p].err
          /\ At(ContainerDN) = {ContainerEntry(ContainerDN)}
          /\ \E p \in Publishers : At(EntryDN) = {CRLEntry(EntryDN, pubs[p].crlDER)}
          /\ entries = At(ContainerDN) \cup At(EntryDN)

\* C32 witness: all publishers have returned without a failing call and
\* without an error, two of them with different CRLs, neither the CRL the
\* directory may have held before; the directory holds the first one's CRL.
C32_Witness ==
    /\ Done = Publishers
    /\ \A p \in Publishers : pubs[p].fault = "none" /\ ~pubs[p].err
    /\ \E p \in Publishers : \E q \in Publishers \ {p} :
          /\ pubs[p].crlDER # pubs[q].crlDER
          /\ OldCRL \notin {pubs[p].crlDER, pubs[q].crlDER}
    /\ At(EntryDN) = {CRLEntry(EntryDN, pubs[1].crlDER)}

\* ------------------------------------------------ connections of updateCRL

\* The calls whose failure returns from updateCRL before a connection is
\* dialled or while dialling it.
BeforeConnection == {"generateCRL", "clusterName", "dial"}

\* C34: a call of updateCRL opens at most one connection, of its own; while
\* it makes its add and modify requests that connection is open; and once it
\* has returned, whether without error, with an error of the container, of the
\* entry or of the modify request, or because StartTLS or Bind failed in
\* connect, every connection it opened is closed, exactly once.
C34_NoConnectionLeftOpen ==
    \A p \in Publishers :
        /\ pubs[p].opened <= 1
        /\ pubs[p].closed <= pubs[p].opened
        /\ pubs[p].pc \in {"addContainer", "addEntry", "modify"} =>
              pubs[p].opened = 1 /\ pubs[p].closed = 0
        /\ pubs[p].pc = "done" =>
              /\ pubs[p].closed = pubs[p].opened
              /\ pubs[p].opened = IF pubs[p].fault \in BeforeConnection THEN 0 ELSE 1

\* C34 witness: one publisher returned because Bind failed and another
\* because its modify request failed, and each has closed the connection it
\* opened.
C34_Witness ==
    \E p \in Publishers : \E q \in Publishers \ {p} :
        /\ pubs[p].pc = "done" /\ pubs[p].fault = "bind" /\ pubs[p].err
        /\ pubs[p].opened = 1 /\ pubs[p].closed = 1
        /\ pubs[q].pc = "done" /\ pubs[q].fault = "modify" /\ pubs[q].err
        /\ pubs[q].opened = 1 /\ pubs[q].closed = 1
        /\ \E e \in At(EntryDN) : e.crl # pubs[q].crlDER

\* ------------------------------------------- undecodable authority answer

\* C33: a call of generateCredentials that got an answer without a PEM block
\* from the authority has returned an error and neither certificate nor key,
\* it has not panicked, and the process is still running.
C33_UndecodableAnswerIsAnError ==
    \A i \in 1..Len(credCalls) :
        credCalls[i].fault = "notPEM" =>
            /\ credCalls[i].err
            /\ credCalls[i].certDER = NoBytes
            /\ credCalls[i].keyDER = NoBytes
            /\ ~credCalls[i].panic
            /\ ~crashed

\* -------------------------------------- two services with one static host

\* How many heartbeat ticks each of the two instances runs.
MaxTicks == 2

\* The address both instances have among their static hosts.
SharedHost == StaticHosts[1]

\* The ticks of the two instances are taken at one clock time: no descriptor
\* expires between them.
RaceUnchanged ==
    UNCHANGED <<newVars, closeCtxDone, gatewayVars, crlVars, nameVars, callVars,
                bridgeVars, pubVars, daemonVars, lisVars, now, period,
                nextAnnounce, generated, onHeartbeat, failed, restarts>>

\* The first half of a tick of instance s: getHostHeartbeatInfo reads the
\* desktops that are in the directory now and picks the name; a failed read
\* ends the tick.
InstancePick(s, readOK) ==
    /\ inst[s].pc = "idle"
    /\ inst[s].ticks < MaxTicks
    /\ LET r == GetHostHeartbeatInfo(SharedHost, GetWindowsDesktops(directory),
                                     ~readOK, now, uuidNext)
       IN /\ inst' = [inst EXCEPT ![s] =
                         IF r.err
                         THEN [pc |-> "idle", desc |-> NoDesc, ticks |-> @.ticks + 1]
                         ELSE [pc |-> "picked", desc |-> r.desc, ticks |-> @.ticks]]
          /\ uuidNext' = IF r.minted THEN uuidNext + 1 ELSE uuidNext
    /\ UNCHANGED <<directory, lastStored>>
    /\ RaceUnchanged

\* The second half of the tick: the descriptor that was generated is
\* announced, and the announcement may fail.
InstanceAnnounce(s, ok) ==
    /\ inst[s].pc = "picked"
    /\ directory' = IF ok THEN Upsert(directory, inst[s].desc) ELSE directory
    /\ lastStored' = [m \in Loops |-> StoredName(directory', m, lastStored[m])]
    /\ inst' = [inst EXCEPT ![s] =
                   [pc |-> "idle", desc |-> NoDesc, ticks |-> @.ticks + 1]]
    /\ UNCHANGED uuidNext
    /\ RaceUnchanged

RaceInit ==
    /\ ServiceIdle
    /\ CallsIdle
    /\ PubIdle
    /\ DaemonIdle
    /\ LisIdle
    /\ inst = [s \in Instances |-> IdleInstance]

RaceNext ==
    \/ \E s \in Instances, readOK \in BOOLEAN : InstancePick(s, readOK)
    \/ \E s \in Instances, ok \in BOOLEAN : InstanceAnnounce(s, ok)

RaceSpec == RaceInit /\ [][RaceNext]_vars

\* The desktops the directory holds for the shared address.
SharedHostDesktops ==
    {e \in directory : e.kind = "desktop" /\ e.addr = SharedHost}

\* C35: whenever both instances are between ticks, the directory holds at
\* most one desktop with the address they share.
C35_OneDescriptorPerAddress ==
    (\A s \in Instances : inst[s].pc = "idle")
        => Cardinality(SharedHostDesktops) <= 1

\* ------------------------------------------- the daemon's list of clusters

\* How long the list of clusters grows.
MaxClusters == 2

\* Config.Dir of the daemon service; New refuses an empty one.
Dir == "dir"

\* The names CreateCluster is asked for.
RequestNames == ClusterNames \cup {""}

\* A profile in the working directory: its name, which is the proxy's, and
\* the cluster name LoadProfile reads from it.
Profile(name, siteName) == [name |-> name, siteName |-> siteName]

\* The profiles the working directory may hold when the service starts: one
\* per proxy.
StoredProfiles ==
    {ps \in SUBSET {Profile(n, m) : n \in ClusterNames, m \in ClusterNames} :
        \A x \in ps, y \in ps : x.name = y.name => x = y}

\* A cluster of the list: its name, the profile its status was read from,
\* the proxy and the cluster name its client is configured with, and the
\* caller that made it.
Cluster(name, status, proxy, site, by) ==
    [Name |-> name, status |-> status, proxy |-> proxy, site |-> site, by |-> by]

\* SaveProfile(dir, makeCurrent) of a client configuration: the profile of
\* its proxy replaces the one stored under that name.
SaveProfile(profs, proxy, site) ==
    {q \in profs : q.name # proxy} \cup {Profile(proxy, site)}

\* newCluster(dir, name) up to the profile it saves: the name and the
\* directory must not be empty.
NewClusterCheck(dir, name) ==
    IF name = "" THEN "BadParameter"
    ELSE IF dir = "" THEN "BadParameter"
    ELSE "none"

\* The cluster newCluster returns: its client is configured with the name as
\* the proxy address and with no cluster name.
NewCluster(name, by) == Cluster(name, "", name, "", by)

\* The loop of CreateCluster over the list as it is when the loop starts.
NameTaken(list, clusterName) ==
    \E i \in 1..Len(list) : list[i].Name = clusterName

\* Service.GetCluster(name): the position of the first cluster with the name,
\* 0 when there is none (NotFound).
GetCluster(list, name) ==
    LET matches == {i \in 1..Len(list) : list[i].Name = name} IN
    IF matches = {} THEN 0
    ELSE CHOOSE i \in matches : \A j \in matches : i <= j

\* profile.ListProfileNames(s.Dir): the names of the stored profiles.
RECURSIVE ListProfileNames(_)
ListProfileNames(profs) ==
    IF profs = {} THEN <<>>
    ELSE LET q == CHOOSE x \in profs : TRUE
         IN <<q.name>> \o ListProfileNames(profs \ {q})

\* How the load of one profile goes: the agent has a key or no user is set
\* and the status is read from the profile; the agent has no key and a user
\* is set, and the status is left empty; a call fails; or the status file is
\* not found while the key loads, and the nil status is dereferenced.
LoadOutcomes == {"status", "empty", "error", "panic"}

\* LoadClusterFromProfile(name): the cluster is named after the SiteName of
\* the profile as it is stored when it is read.
LoadClusterFromProfile(profs, name, how) ==
    IF name = "" THEN [err |-> "BadParameter", cluster |-> NoCluster]
    ELSE IF how \in {"error", "panic"} THEN [err |-> how, cluster |-> NoCluster]
    ELSE LET q == CHOOSE x \in profs : x.name = name
         IN [err |-> "none",
             cluster |-> Cluster(q.siteName,
                                 IF how = "status" THEN name ELSE "",
                                 name, q.siteName, "main")]

\* A call that has returned keeps what it returned.
Finished(call, err) ==
    [call EXCEPT !.pc = "done", !.err = err, !.seen = <<>>,
                 !.cluster = NoCluster, !.pending = <<>>]

\* The clusters that callers are about to append.
Arriving ==
    Cardinality({g \in Handlers : daemonCall[g].op = "create"
                                  /\ daemonCall[g].pc \in {"saveProfile", "newClient", "store"}})
    + Len(daemonCall["main"].pending)

\* No caller has panicked; one that has ends the process.
DaemonRuns == \A g \in Callers : daemonCall[g].err # "panic"

DaemonUnchanged ==
    UNCHANGED <<newVars, closeCtxDone, gatewayVars, loopVars, crlVars, nameVars,
                callVars, bridgeVars, pubVars, raceVars, lisVars>>

\* Handler.CreateCluster calls Service.CreateCluster, which looks for the
\* name in the list and, in newCluster, checks the name.
CreateClusterCheck(g, name) ==
    /\ DaemonRuns
    /\ daemonCall[g].pc \in {"idle", "done"}
    /\ Len(clusters) + Arriving < MaxClusters
    /\ LET call == [NoDaemonCall EXCEPT !.op = "create", !.name = name]
       IN daemonCall' = [daemonCall EXCEPT ![g] =
             IF NameTaken(clusters, name) THEN Finished(call, "BadParameter")
             ELSE IF NewClusterCheck(Dir, name) # "none"
             THEN Finished(call, NewClusterCheck(Dir, name))
             ELSE [call EXCEPT !.pc = "saveProfile"]]
    /\ UNCHANGED <<clusters, profiles>>
    /\ DaemonUnchanged

\* newCluster saves the profile of the new cluster, or fails to.
CreateClusterSaveProfile(g, fail) ==
    /\ DaemonRuns
    /\ daemonCall[g].op = "create"
    /\ daemonCall[g].pc = "saveProfile"
    /\ IF fail
       THEN /\ daemonCall' = [daemonCall EXCEPT ![g] = Finished(@, "error")]
            /\ UNCHANGED profiles
       ELSE /\ daemonCall' = [daemonCall EXCEPT ![g].pc = "newClient"]
            /\ profiles' = SaveProfile(profiles, daemonCall[g].name, "")
    /\ UNCHANGED clusters
    /\ DaemonUnchanged

\* newCluster makes the client and returns the cluster; CreateCluster reads
\* the list it will append to.
CreateClusterNewClient(g, fail) ==
    /\ DaemonRuns
    /\ daemonCall[g].op = "create"
    /\ daemonCall[g].pc = "newClient"
    /\ daemonCall' = [daemonCall EXCEPT ![g] =
          IF fail THEN Finished(@, "error")
          ELSE [@ EXCEPT !.pc = "store", !.seen = clusters,
                         !.cluster = NewCluster(daemonCall[g].name, g)]]
    /\ UNCHANGED <<clusters, profiles>>
    /\ DaemonUnchanged

\* s.clusters = append(s.clusters, cluster): the list that was read, with the
\* cluster appended, is stored; no lock is held between the read and the
\* store. CreateCluster returns nil.
CreateClusterStore(g) ==
    /\ DaemonRuns
    /\ daemonCall[g].op = "create"
    /\ daemonCall[g].pc = "store"
    /\ clusters' = Append(daemonCall[g].seen, daemonCall[g].cluster)
    /\ daemonCall' = [daemonCall EXCEPT ![g].pc = "getCluster", ![g].seen = <<>>]
    /\ UNCHANGED profiles
    /\ DaemonUnchanged

\* Handler.CreateCluster looks the cluster up by the name it asked for, and
\* returns NotFound when no cluster of the list has it.
HandlerGetCluster(g) ==
    /\ DaemonRuns
    /\ daemonCall[g].op = "create"
    /\ daemonCall[g].pc = "getCluster"
    /\ LET i == GetCluster(clusters, daemonCall[g].name) IN
       daemonCall' = [daemonCall EXCEPT ![g] =
          [Finished(@, IF i = 0 THEN "NotFound" ELSE "none") EXCEPT !.got = i]]
    /\ UNCHANGED <<clusters, profiles>>
    /\ DaemonUnchanged

\* Handler.GetClusterAuthSettings, or a caller of Cluster.SSOLogin, gets the
\* cluster by its name.
ClusterGet(g, op, name) ==
    /\ DaemonRuns
    /\ daemonCall[g].pc \in {"idle", "done"}
    /\ LET i == GetCluster(clusters, name)
           call == [NoDaemonCall EXCEPT !.op = op, !.name = name, !.got = i]
       IN daemonCall' = [daemonCall EXCEPT ![g] =
             IF i = 0 THEN Finished(call, "NotFound")
             ELSE [call EXCEPT !.pc = "saveProfile", !.cluster = clusters[i]]]
    /\ UNCHANGED <<clusters, profiles>>
    /\ DaemonUnchanged

\* Cluster.SyncAuthPreference and Cluster.SSOLogin: after the ping (and the
\* login) the client saves its profile, unless a call has failed.
ClusterSaveProfile(g, fail) ==
    /\ DaemonRuns
    /\ daemonCall[g].op \in {"sync", "sso"}
    /\ daemonCall[g].pc = "saveProfile"
    /\ IF fail
       THEN /\ daemonCall' = [daemonCall EXCEPT ![g] = Finished(@, "error")]
            /\ UNCHANGED profiles
       ELSE /\ daemonCall' = [daemonCall EXCEPT ![g] = Finished(@, "none")]
            /\ profiles' = SaveProfile(profiles, daemonCall[g].cluster.proxy,
                                       daemonCall[g].cluster.site)
    /\ UNCHANGED clusters
    /\ DaemonUnchanged

\* Service.LoadClusters lists the profile names.
LoadClustersList(listErr) ==
    /\ DaemonRuns
    /\ daemonCall["main"].pc \in {"idle", "done"}
    /\ Len(clusters) + Arriving + Cardinality(profiles) <= MaxClusters
    /\ LET call == [NoDaemonCall EXCEPT !.op = "load"]
           pfNames == ListProfileNames(profiles)
       IN daemonCall' = [daemonCall EXCEPT !["main"] =
             IF listErr THEN Finished(call, "error")
             ELSE IF pfNames = <<>> THEN Finished(call, "none")
             ELSE [call EXCEPT !.pc = "load", !.pending = pfNames]]
    /\ UNCHANGED <<clusters, profiles>>
    /\ DaemonUnchanged

\* One iteration of the loop of LoadClusters up to the cluster it loads: the
\* profile is read as it is stored now, and the calls that follow it (client,
\* key agent, status and key files) succeed or fail.
LoadClustersLoad(how) ==
    /\ DaemonRuns
    /\ daemonCall["main"].pc = "load"
    /\ LET r == LoadClusterFromProfile(profiles, Head(daemonCall["main"].pending), how)
       IN daemonCall' = [daemonCall EXCEPT !["main"] =
             IF r.err # "none" THEN Finished(@, r.err)
             ELSE [@ EXCEPT !.pc = "append", !.cluster = r.cluster]]
    /\ UNCHANGED <<clusters, profiles>>
    /\ DaemonUnchanged

\* After the cluster is loaded and printed, LoadClusters reads the list it
\* will append to.
LoadClustersRead ==
    /\ DaemonRuns
    /\ daemonCall["main"].pc = "append"
    /\ daemonCall' = [daemonCall EXCEPT !["main"].pc = "store",
                                        !["main"].seen = clusters]
    /\ UNCHANGED <<clusters, profiles>>
    /\ DaemonUnchanged

\* The append of the loop of LoadClusters, and the return after the last.
LoadClustersStore ==
    /\ DaemonRuns
    /\ daemonCall["main"].pc = "store"
    /\ clusters' = Append(daemonCall["main"].seen, daemonCall["main"].cluster)
    /\ daemonCall' = [daemonCall EXCEPT !["main"] =
          IF Len(@.pending) = 1 THEN Finished(@, "none")
          ELSE [@ EXCEPT !.pc = "load", !.seen = <<>>,
                         !.pending = Tail(daemonCall["main"].pending)]]
    /\ UNCHANGED profiles
    /\ DaemonUnchanged

\* daemon.New(cfg): the list is empty; the working directory holds the
\* profiles of earlier runs.
DaemonInit ==
    /\ ServiceIdle
    /\ CallsIdle
    /\ PubIdle
    /\ RaceIdle
    /\ LisIdle
    /\ clusters = <<>>
    /\ profiles \in StoredProfiles
    /\ daemonCall = [g \in Callers |-> NoDaemonCall]

DaemonNext ==
    \/ \E g \in Handlers, name \in RequestNames : CreateClusterCheck(g, name)
    \/ \E g \in Handlers, fail \in BOOLEAN : CreateClusterSaveProfile(g, fail)
    \/ \E g \in Handlers, fail \in BOOLEAN : CreateClusterNewClient(g, fail)
    \/ \E g \in Handlers : CreateClusterStore(g)
    \/ \E g \in Handlers : HandlerGetCluster(g)
    \/ \E g \in Handlers, op \in {"sync", "sso"}, name \in ClusterNames :
           ClusterGet(g, op, name)
    \/ \E g \in Handlers, fail \in BOOLEAN : ClusterSaveProfile(g, fail)
    \/ \E listErr \in BOOLEAN : LoadClustersList(listErr)
    \/ \E how \in LoadOutcomes : LoadClustersLoad(how)
    \/ LoadClustersRead
    \/ LoadClustersStore

DaemonSpec == DaemonInit /\ [][DaemonNext]_vars

\* The step of caller g from one place of its call to another.
DaemonStep(g, from, to) ==
    /\ daemonCall[g].pc = from
    /\ daemonCall'[g].pc = to

\* C36: CreateCluster returns BadParameter when a cluster of the list has the
\* name; a call that returns an error leaves the list as it is; a call that
\* succeeds appends its cluster to the list, in which no cluster has the
\* name, and GetCluster for the name then returns that cluster.
C36_Step ==
    \A g \in Handlers :
        /\ \A from \in {"idle", "done"} :
              (/\ DaemonStep(g, from, daemonCall'[g].pc)
               /\ daemonCall'[g] # daemonCall[g]
               /\ daemonCall'[g].op = "create"
               /\ NameTaken(clusters, daemonCall'[g].name))
              => (daemonCall'[g].pc = "done" /\ daemonCall'[g].err = "BadParameter")
        /\ (daemonCall'[g].op = "create" /\ daemonCall'[g].pc # "getCluster"
            /\ daemonCall'[g] # daemonCall[g])
           => clusters' = clusters
        /\ (daemonCall[g].op = "create" /\ DaemonStep(g, "store", "getCluster"))
           => (/\ ~NameTaken(clusters, daemonCall[g].name)
               /\ clusters' = Append(clusters, daemonCall[g].cluster))
        /\ (daemonCall[g].op = "create" /\ DaemonStep(g, "getCluster", "done"))
           => (/\ daemonCall'[g].got # 0
               /\ clusters[daemonCall'[g].got] = daemonCall[g].cluster)

C36_CreateCluster == [][C36_Step]_vars

\* C37: no two clusters of the list have the same name.
C37_NoDuplicateNames ==
    \A i \in 1..Len(clusters) : \A j \in 1..Len(clusters) :
        clusters[i].Name = clusters[j].Name => i = j

\* ------------------------------------------------------------ newListener

\* How many times newListener is called.
MaxListens == 2

\* The separator of network and address, and the one network that is served.
SchemeSep == <<":", "/", "/">>
Unix == <<"u", "n", "i", "x">>

\* The host addresses newListener is called with: a network, a separator
\* or none, and an address.
HostNetworks == {<<>>, Unix, <<"t", "c", "p">>, <<"u", "n", "i", "x", "s">>}
HostSeps == {<<>>, SchemeSep, <<":", "/">>}
HostAddrs == {<<>>, <<"/", "s">>, <<"a", ":", "/", "/", "b">>}
HostStrings == {n \o p \o a : n \in HostNetworks, p \in HostSeps, a \in HostAddrs}

\* strings.Index(s, sep): the first position sep starts at in s, 0 if none.
Index(chars, sep) ==
    LET at == {i \in 1..Len(chars) :
                  /\ i + Len(sep) - 1 <= Len(chars)
                  /\ SubSeq(chars, i, i + Len(sep) - 1) = sep}
    IN IF at = {} THEN 0 ELSE CHOOSE i \in at : \A j \in at : i <= j

\* strings.SplitN(s, sep, 2): s cut at the first sep, or s alone when it
\* holds no sep.
SplitN2(chars, sep) ==
    LET i == Index(chars, sep) IN
    IF i = 0 THEN <<chars>>
    ELSE <<SubSeq(chars, 1, i - 1), SubSeq(chars, i + Len(sep), Len(chars))>>

\* newListener(host): the error it returns, whether it panicked, and the
\* network and address it listens on; net.Listen may fail.
NewListener(host, listenOK) ==
    LET parts == SplitN2(host, SchemeSep)
        network == parts[1]
    IN IF network = Unix
       THEN IF Len(parts) < 2
            THEN [err |-> "none", panic |-> TRUE, listening |-> FALSE,
                  network |-> "", addr |-> ""]
            ELSE IF ~listenOK
            THEN [err |-> "error", panic |-> FALSE, listening |-> FALSE,
                  network |-> "", addr |-> ""]
            ELSE [err |-> "none", panic |-> FALSE, listening |-> TRUE,
                  network |-> Str(network), addr |-> Str(parts[2])]
       ELSE [err |-> "BadParameter", panic |-> FALSE, listening |-> FALSE,
             network |-> "", addr |-> ""]

\* newListener is called; a panic ends the process.
ListenCall(host, listenOK) ==
    /\ Len(lisCalls) < MaxListens
    /\ \A i \in 1..Len(lisCalls) : ~lisCalls[i].panic
    /\ LET r == NewListener(host, listenOK) IN
       lisCalls' = Append(lisCalls,
                      [host |-> host, err |-> r.err, panic |-> r.panic,
                       listening |-> r.listening, network |-> r.network,
                       addr |-> r.addr])
    /\ UNCHANGED <<newVars, closeCtxDone, gatewayVars, loopVars, crlVars, nameVars,
                   callVars, bridgeVars, pubVars, raceVars, daemonVars>>

ListenInit ==
    /\ ServiceIdle
    /\ CallsIdle
    /\ PubIdle
    /\ RaceIdle
    /\ DaemonIdle
    /\ lisCalls = <<>>

ListenNext ==
    \E host \in HostStrings, listenOK \in BOOLEAN : ListenCall(host, listenOK)

ListenSpec == ListenInit /\ [][ListenNext]_vars

\* The host has the form unix://<path>.
IsUnixAddress(host) ==
    /\ Len(host) >= Len(Unix \o SchemeSep)
    /\ SubSeq(host, 1, Len(Unix \o SchemeSep)) = Unix \o SchemeSep

\* C38: a call of newListener listens only when the host has the form
\* unix://<path>, and for every other host it returns BadParameter, neither
\* listening nor panicking.
C38_OnlyUnixAddressesListen ==
    \A i \in 1..Len(lisCalls) :
        /\ lisCalls[i].listening => IsUnixAddress(lisCalls[i].host)
        /\ ~IsUnixAddress(lisCalls[i].host) =>
              /\ lisCalls[i].err = "BadParameter"
              /\ ~lisCalls[i].listening
              /\ ~lisCalls[i].panic

====
